---- MODULE Spec2Model ----
(***************************************************************************)
(* FlavorLens API: the query executor with its result cache                *)
(* (database/connection.py) and the endpoint handlers that call it         *)
(* (routers/*.py), as a state machine.                                     *)
(*                                                                         *)
(* Time is counted in ticks of TickMs milliseconds.  An execute_query call *)
(* takes two steps, the cache lookup and the engine round trip.  A call    *)
(* record keeps what the call was given and how it ended: hit (the line    *)
(* "Using cached query result" was logged), evicted (the lookup removed an *)
(* expired entry), execs (how often the query was sent to the engine).     *)
(***************************************************************************)
EXTENDS Integers, Sequences, FiniteSets, TLC

\* ---------------------------------------------------------------- bounds
MaxTime == 2
MaxTTL  == 2
MaxVer  == 1
NCalls  == 2

\* ------------------------------------------------------------- constants
TickMs == 600000

CallIds  == 1..NCalls
TTLs     == 1..MaxTTL
Versions == 0..MaxVer

\* (query text, params) pairs of the direct callers: one text, two parameter
\* lists, so that the key has to take the parameters into account.
CallInputs == { <<"Q1", <<>>>>, <<"Q1", <<1>>>> }

None   == "None"
Handle == "Handle"

NoResult == [rows |-> <<"-">>, row_count |-> -1]

EngineOutcomes  == {"ok", "conn_error", "query_error"}
ConnectOutcomes == {"ok", "connect_fail", "verify_fail"}

VARIABLES
    now,              \* int(time.time() * 1000), in ticks
    connection,       \* db_instance.connection: None or a handle
    cache,            \* db_instance.cache: key -> [data, timestamp]
    enable_caching,   \* settings.enable_caching
    motherduck_token, \* settings.motherduck_token is set
    db,               \* the engine's dataset version (0: no rows at all)
    calls,            \* execute_query calls, one record per slot
    req,              \* the HTTP request being handled
    dataset,          \* the rows of flavorlens.main.ingredient_details
    tpl,              \* the metric template being evaluated: inputs and result
    today             \* the year of the engine's CURRENT_DATE

\* The executor's and the handlers' state, and the templates' state.
exec_vars == <<now, connection, cache, enable_caching, motherduck_token, db, calls, req>>
tpl_vars  == <<dataset, tpl, today>>

vars == <<now, connection, cache, enable_caching, motherduck_token, db, calls, req,
          dataset, tpl, today>>

\* ------------------------------------------------------------- executor

\* QueryOptions: cacheable defaults to False, ttl to settings.default_cache_ttl.
QueryOptions(cacheable, ttl) == [cacheable |-> cacheable, ttl |-> ttl]

\* settings.default_cache_ttl, one hour
default_cache_ttl == 3600000 \div TickMs

OptionInputs == { QueryOptions(FALSE, default_cache_ttl) } \cup { QueryOptions(TRUE, t) : t \in TTLs }

\* md5 of "query:str(params)"; the content itself stands for its digest.
GenerateCacheKey(query, params) == <<query, params>>

\* What the engine returns for a query on the dataset version v: v rows.
EngineRows(query, params, v) == [k \in 1..v |-> <<query, params, v>>]

\* The uniform record built from the fetched rows.
QueryResult(rows) == [rows |-> rows, row_count |-> Len(rows)]

\* Mutant of IsCacheValid: an entry whose age equals the ttl still counts as valid.
IsCacheValid_Inclusive(cache_entry, ttl) == (now - cache_entry.timestamp) <= ttl

IsCacheValid(cache_entry, ttl) == (now - cache_entry.timestamp) < ttl

\* Mutant of CachingOn: the global switch is not consulted.
CachingOn_IgnoreSetting(options) == options.cacheable

CachingOn(options) == enable_caching /\ options.cacheable

CacheDelete(c, key) == [k \in (DOMAIN c) \ {key} |-> c[k]]

CacheStore(c, key, data, ts) ==
    [k \in (DOMAIN c) \cup {key} |->
        IF k = key THEN [data |-> data, timestamp |-> ts] ELSE c[k]]

\* Mutant of ConnectResult: a successful connect does not keep the handle.
ConnectResult_NoHandle(conn, co) ==
    IF ~motherduck_token THEN [connection |-> conn, error |-> "no_token"]
    ELSE IF co = "connect_fail" THEN [connection |-> conn, error |-> "connect_fail"]
    ELSE IF co = "verify_fail" THEN [connection |-> conn, error |-> "verify_fail"]
    ELSE [connection |-> conn, error |-> "none"]

\* DatabaseConnection.connect: the handle and the error it ends with.
ConnectResult(conn, co) ==
    IF ~motherduck_token THEN [connection |-> conn, error |-> "no_token"]
    ELSE IF co = "connect_fail" THEN [connection |-> conn, error |-> "connect_fail"]
    ELSE IF co = "verify_fail" THEN [connection |-> Handle, error |-> "verify_fail"]
    ELSE [connection |-> Handle, error |-> "none"]

IdleCall ==
    [pc |-> "idle", entry |-> "method", query |-> "Q1", params |-> <<>>,
     options |-> QueryOptions(FALSE, default_cache_ttl), result |-> NoResult,
     hit |-> FALSE, evicted |-> FALSE, execs |-> 0, error |-> "none"]

Free(i) == calls[i].pc \in {"idle", "returned", "raised"}

NewCall(entry, query, params, options) ==
    [IdleCall EXCEPT !.entry = entry, !.query = query, !.params = params,
                     !.options = options]

\* Mutant of Lookup: the valid entry is found but not returned; the call goes
\* on to the engine.
Lookup_NoReturn(c, call) ==
    LET key == GenerateCacheKey(call.query, call.params) IN
    IF CachingOn(call.options) /\ key \in DOMAIN c
    THEN IF IsCacheValid(c[key], call.options.ttl)
         THEN [call |-> [call EXCEPT !.pc = "execute"], cache |-> c]
         ELSE [call  |-> [call EXCEPT !.pc = "execute", !.evicted = TRUE],
               cache |-> CacheDelete(c, key)]
    ELSE [call |-> [call EXCEPT !.pc = "execute"], cache |-> c]

\* The cache lookup of execute_query: the call record and the cache after it.
Lookup(c, call) ==
    LET key == GenerateCacheKey(call.query, call.params) IN
    IF CachingOn(call.options) /\ key \in DOMAIN c
    THEN IF IsCacheValid(c[key], call.options.ttl)
         THEN [call  |-> [call EXCEPT !.pc = "returned", !.result = c[key].data,
                                      !.hit = TRUE],
               cache |-> c]
         ELSE [call  |-> [call EXCEPT !.pc = "execute", !.evicted = TRUE],
               cache |-> CacheDelete(c, key)]
    ELSE [call |-> [call EXCEPT !.pc = "execute"], cache |-> c]

\* A caller enters execute_query.  The module-level function first calls
\* get_db_connection, which connects when there is no handle; the method of
\* DatabaseConnection goes straight to the cache lookup.
BeginCall(i, entry, query, params, options, co) ==
    /\ Free(i)
    /\ LET call == NewCall(entry, query, params, options)
           c    == ConnectResult(connection, co)
       IN IF entry = "module" /\ connection = None
          THEN /\ connection' = c.connection
               /\ IF c.error # "none"
                  THEN /\ calls' = [calls EXCEPT ![i] =
                                      [call EXCEPT !.pc = "raised", !.error = c.error]]
                       /\ cache' = cache
                  ELSE LET l == Lookup(cache, call) IN
                       /\ calls' = [calls EXCEPT ![i] = l.call]
                       /\ cache' = l.cache
          ELSE LET l == Lookup(cache, call) IN
               /\ connection' = connection
               /\ calls' = [calls EXCEPT ![i] = l.call]
               /\ cache' = l.cache

\* Mutant of Execute: a failed query is sent to the engine a second time
\* before the error is raised.
Execute_Retry(c, call, eo) ==
    IF eo = "ok"
    THEN LET query_result == QueryResult(EngineRows(call.query, call.params, db))
             key == GenerateCacheKey(call.query, call.params)
         IN [call  |-> [call EXCEPT !.pc = "returned", !.result = query_result,
                                    !.execs = @ + 1],
             cache |-> IF CachingOn(call.options)
                       THEN CacheStore(c, key, query_result, now)
                       ELSE c]
    ELSE [call  |-> [call EXCEPT !.pc = "raised", !.error = eo, !.execs = @ + 2],
          cache |-> c]

\* Mutant of Execute: single flight.  A call that finds, after its miss, that
\* another call has stored a valid entry meanwhile takes that entry instead
\* of running its own query.
Execute_SingleFlight(c, call, eo) ==
    LET key == GenerateCacheKey(call.query, call.params) IN
    IF CachingOn(call.options) /\ key \in DOMAIN c
       /\ IsCacheValid(c[key], call.options.ttl)
    THEN [call |-> [call EXCEPT !.pc = "returned", !.result = c[key].data],
          cache |-> c]
    ELSE IF eo = "ok"
    THEN LET query_result == QueryResult(EngineRows(call.query, call.params, db))
         IN [call  |-> [call EXCEPT !.pc = "returned", !.result = query_result,
                                    !.execs = @ + 1],
             cache |-> IF CachingOn(call.options)
                       THEN CacheStore(c, key, query_result, now)
                       ELSE c]
    ELSE [call  |-> [call EXCEPT !.pc = "raised", !.error = eo, !.execs = @ + 1],
          cache |-> c]

\* Mutant of Execute: the entry is written before the outcome of the engine
\* is known, so a failed query leaves an (empty) entry under its key.
Execute_StoreOnError(c, call, eo) ==
    LET key == GenerateCacheKey(call.query, call.params)
        query_result == QueryResult(IF eo = "ok"
                                    THEN EngineRows(call.query, call.params, db)
                                    ELSE <<>>)
        stored == IF CachingOn(call.options)
                  THEN CacheStore(c, key, query_result, now)
                  ELSE c
    IN  IF eo = "ok"
        THEN [call  |-> [call EXCEPT !.pc = "returned", !.result = query_result,
                                     !.execs = @ + 1],
              cache |-> stored]
        ELSE [call  |-> [call EXCEPT !.pc = "raised", !.error = eo, !.execs = @ + 1],
              cache |-> stored]

\* The outcome of running the call's query on the engine: the call record and
\* the cache after it.
Execute(c, call, eo) ==
    IF eo = "ok"
    THEN LET query_result == QueryResult(EngineRows(call.query, call.params, db))
             key == GenerateCacheKey(call.query, call.params)
         IN [call  |-> [call EXCEPT !.pc = "returned", !.result = query_result,
                                    !.execs = @ + 1],
             cache |-> IF CachingOn(call.options)
                       THEN CacheStore(c, key, query_result, now)
                       ELSE c]
    ELSE [call  |-> [call EXCEPT !.pc = "raised", !.error = eo, !.execs = @ + 1],
          cache |-> c]

\* The try block of execute_query: connect when there is no handle, run the
\* query, store the result; any exception is logged and raised again.
RunCall(i, eo, co) ==
    /\ calls[i].pc = "execute"
    /\ LET c == ConnectResult(connection, co) IN
       IF connection = None
       THEN /\ connection' = c.connection
            /\ IF c.error # "none"
               THEN /\ calls' = [calls EXCEPT ![i] =
                                   [@ EXCEPT !.pc = "raised", !.error = c.error]]
                    /\ cache' = cache
               ELSE LET x == Execute(cache, calls[i], eo) IN
                    /\ calls' = [calls EXCEPT ![i] = x.call]
                    /\ cache' = x.cache
       ELSE LET x == Execute(cache, calls[i], eo) IN
            /\ connection' = connection
            /\ calls' = [calls EXCEPT ![i] = x.call]
            /\ cache' = x.cache

\* ------------------------------------------------------------- routers

Endpoints ==
    {"category_trends", "subcategory_trends", "category_analysis",
     "cuisine_analysis", "phase", "top_dishes", "pairings"}

\* The endpoints that await their sub-queries with asyncio.gather.
GatherEndpoints == {"category_trends", "subcategory_trends"}

DefaultParams == [source |-> "absent", sort_by |-> "share_percent", category |-> "absent"]

\* The query parameters a request carries, per endpoint.  /phase defaults its
\* source to "recipe"; "bogus" is a value outside every allow-list.
ParamInputs(ep) ==
    IF ep = "phase"
    THEN {[DefaultParams EXCEPT !.source = s] : s \in {"recipe", "bogus"}}
    ELSE IF ep = "top_dishes"
    THEN {[DefaultParams EXCEPT !.source = s] : s \in {"absent", "social", "bogus"}}
    ELSE IF ep = "pairings"
    THEN {[DefaultParams EXCEPT !.sort_by = b, !.category = c] :
            b \in {"growth", "bogus"}, c \in {"absent", "Desserts"}}
    ELSE {DefaultParams}

sort_mapping ==
    [k \in {"share_percent", "growth", "appeal_score",
            "dominant_ingredient_percent", "title"} |->
        CASE k = "share_percent" -> "gc.share_percentage"
          [] k = "growth" -> "gc.growth_rate"
          [] k = "appeal_score" -> "gc.appeal_score"
          [] k = "dominant_ingredient_percent" -> "base_dominant_percent"
          [] k = "title" -> "gc.paired_ingredient"]

\* sort_mapping.get(sort_by, "gc.share_percentage")
SortColumn(sort_by) ==
    IF sort_by \in DOMAIN sort_mapping THEN sort_mapping[sort_by]
    ELSE "gc.share_percentage"

NoResponse == [status |-> 0, detail |-> <<>>, body |-> "none"]

HTTPException(status_code, detail) ==
    [status |-> status_code, detail |-> detail, body |-> "none"]

Ok(body) == [status |-> 200, detail |-> <<>>, body |-> body]

PhaseSources == {"recipe", "menu"}
DishSources  == {"recipe", "menu", "social"}

\* The parameter checks a handler makes before it builds its queries: the
\* error it raises, or NoResponse when the request passes.
Validate(ep, params) ==
    IF ep = "phase" /\ params.source \notin PhaseSources
    THEN HTTPException(400, <<"Source must be 'recipe' or 'menu'">>)
    ELSE IF ep = "top_dishes" /\ params.source # "absent"
            /\ params.source \notin DishSources
    THEN HTTPException(400, <<"Source must be 'recipe', 'menu', or 'social'">>)
    ELSE NoResponse

Cached(query, ms) == [query |-> query, options |-> QueryOptions(TRUE, ms \div TickMs)]

Uncached(query) == [query |-> query, options |-> QueryOptions(FALSE, default_cache_ttl)]

\* The queries a handler sends, in order.
Plan(ep, params) ==
    CASE ep = "category_trends" ->
            << Cached("category_trends.years", 3600000),
               Cached("category_trends.trends", 3600000) >>
      [] ep = "subcategory_trends" ->
            << Cached("subcategory_trends.years", 3600000),
               Cached("subcategory_trends.trends", 3600000) >>
      [] ep = "category_analysis" ->
            << Cached("category_analysis.distribution", 3600000),
               Cached("category_analysis.penetration", 3600000) >>
      [] ep = "cuisine_analysis" -> << Cached("cuisine_analysis", 3600000) >>
      [] ep = "phase" -> << Cached("phase", 600000) >>
      [] ep = "top_dishes" -> << Cached("top_dishes", 3600000) >>
      [] ep = "pairings" ->
            IF params.category # "absent"
            THEN << Uncached("pairings.count"), Uncached("pairings.debug"),
                    Uncached(<<"pairings.main", SortColumn(params.sort_by)>>) >>
            ELSE << Uncached("pairings.count"),
                    Uncached(<<"pairings.main", SortColumn(params.sort_by)>>) >>

\* The call slot of sub-query k: the tasks of a gather run side by side, the
\* awaits of the other handlers one after another.
Slot(ep, k) == IF ep \in GatherEndpoints THEN k ELSE 1

\* The response a handler builds from the row counts of its finished queries.
Assemble(ep, rows) ==
    LET last == rows[Len(rows)]
        some_empty == \E k \in 1..Len(rows) : rows[k] = 0
    IN CASE ep = "category_trends" ->
                IF some_empty
                THEN HTTPException(404, <<"No category trends data found for ingredient">>)
                ELSE Ok("data")
         [] ep = "subcategory_trends" -> IF some_empty THEN Ok("empty") ELSE Ok("data")
         [] ep = "category_analysis" ->
                IF some_empty
                THEN HTTPException(404, <<"No category data found for ingredient">>)
                ELSE Ok("data")
         [] ep = "cuisine_analysis" ->
                IF some_empty
                THEN HTTPException(404, <<"No cuisine data found for ingredient">>)
                ELSE Ok("data")
         [] ep = "phase" -> IF some_empty THEN Ok("default") ELSE Ok("data")
         [] ep = "top_dishes" -> IF some_empty THEN Ok("empty") ELSE Ok("data")
         [] ep = "pairings" -> IF last = 0 THEN Ok("empty") ELSE Ok("data")

\* str(e) of the exception a failed call raised.
ErrorText(error) ==
    CASE error = "no_token" -> "MOTHERDUCK_TOKEN is required but not found in settings"
      [] error = "connect_fail" -> "IO Error: could not connect to MotherDuck"
      [] error = "verify_fail" -> "MotherDuck connection test failed"
      [] error = "conn_error" -> "IO Error: connection to MotherDuck lost"
      [] error = "query_error" -> "Parser Error: syntax error at or near SELECT"
      [] OTHER -> ""

\* The handler's except clause for an exception that is no HTTPException.
ErrorResponse(ep, error) ==
    CASE ep = "category_trends" ->
            HTTPException(500, <<"Failed to fetch category trends data">>)
      [] ep = "subcategory_trends" ->
            HTTPException(500, <<"Failed to fetch subcategory trends data">>)
      [] ep = "category_analysis" ->
            HTTPException(500, <<"Failed to fetch category analysis data">>)
      [] ep = "cuisine_analysis" ->
            HTTPException(500, <<"Failed to fetch cuisine analysis data">>)
      [] ep = "phase" -> HTTPException(500, <<"Internal server error">>)
      [] ep = "top_dishes" -> HTTPException(500, <<"Failed to fetch top dishes data">>)
      [] ep = "pairings" ->
            HTTPException(500, <<"Internal server error: ", ErrorText(error)>>)

\* Mutant of AwaitOutcome: gather(..., return_exceptions=True), the handler
\* goes on once every sub-query has ended, failed or not.
AwaitOutcome_ReturnExceptions(state) ==
    IF \A k \in 1..Len(state) : state[k] \in {"ok", "error"} THEN "assemble"
    ELSE "wait"

\* What the handler does when one of its awaited sub-queries has ended: the
\* first exception ends the await (of one call, or of the gather); the handler
\* goes on to build the response once every sub-query has returned.
AwaitOutcome(state) ==
    IF \E k \in 1..Len(state) : state[k] = "error" THEN "fail"
    ELSE IF \A k \in 1..Len(state) : state[k] = "ok" THEN "assemble"
    ELSE "wait"

NoRequest ==
    [pc |-> "idle", ep |-> "none", params |-> DefaultParams,
     state |-> <<>>, rows |-> <<>>, error |-> "none", response |-> NoResponse]

\* A request arrives: the handler checks its parameters.
Receive(ep, params) ==
    /\ req.pc \in {"idle", "done"}
    /\ LET v == Validate(ep, params)
           n == Len(Plan(ep, params))
       IN req' = IF v # NoResponse
                 THEN [NoRequest EXCEPT !.pc = "done", !.ep = ep, !.params = params,
                                        !.response = v]
                 ELSE [NoRequest EXCEPT !.pc = "querying", !.ep = ep,
                                        !.params = params,
                                        !.state = [k \in 1..n |-> "new"],
                                        !.rows = [k \in 1..n |-> -1]]
    /\ UNCHANGED tpl_vars
    /\ UNCHANGED <<now, connection, cache, enable_caching, motherduck_token, db, calls>>

\* The handler calls execute_query for its sub-query k: at once for the tasks
\* of a gather, after the queries before it have returned otherwise.
Issue(k, co) ==
    /\ req.pc = "querying"
    /\ k \in 1..Len(req.state)
    /\ req.state[k] = "new"
    /\ req.ep \in GatherEndpoints \/ \A j \in 1..(k - 1) : req.state[j] = "ok"
    /\ LET q == Plan(req.ep, req.params)[k] IN
       BeginCall(Slot(req.ep, k), "module", q.query, <<>>, q.options, co)
    /\ req' = [req EXCEPT !.state[k] = "issued"]
    /\ UNCHANGED tpl_vars
    /\ UNCHANGED <<now, enable_caching, motherduck_token, db>>

\* Sub-query k has ended and the handler takes it up: it keeps waiting, builds
\* the response, or leaves through its except clause.
Collect(k) ==
    /\ req.pc = "querying"
    /\ k \in 1..Len(req.state)
    /\ req.state[k] = "issued"
    /\ LET i    == Slot(req.ep, k)
           call == calls[i]
       IN /\ call.pc \in {"returned", "raised"}
          /\ LET state == [req.state EXCEPT ![k] =
                              IF call.pc = "returned" THEN "ok" ELSE "error"]
                 rows  == [req.rows EXCEPT ![k] =
                              IF call.pc = "returned" THEN call.result.row_count ELSE -1]
                 what  == AwaitOutcome(state)
             IN req' = [req EXCEPT
                          !.state = state,
                          !.rows = rows,
                          !.pc = IF what = "wait" THEN "querying" ELSE "done",
                          !.error = IF what = "fail" THEN call.error ELSE "none",
                          !.response =
                             IF what = "fail" THEN ErrorResponse(req.ep, call.error)
                             ELSE IF what = "assemble" THEN Assemble(req.ep, rows)
                             ELSE NoResponse]
          /\ calls' = [calls EXCEPT ![i] = IdleCall]
    /\ UNCHANGED tpl_vars
    /\ UNCHANGED <<now, connection, cache, enable_caching, motherduck_token, db>>

\* ------------------------------------------------------------- actions

Call(i, entry, inp, options, co) ==
    /\ BeginCall(i, entry, inp[1], inp[2], options, co)
    /\ UNCHANGED tpl_vars
    /\ UNCHANGED <<now, enable_caching, motherduck_token, db, req>>

Run(i, eo, co) ==
    /\ RunCall(i, eo, co)
    /\ UNCHANGED tpl_vars
    /\ UNCHANGED <<now, enable_caching, motherduck_token, db, req>>

\* db.connect() called directly.
Connect(co) ==
    /\ connection' = ConnectResult(connection, co).connection
    /\ UNCHANGED tpl_vars
    /\ UNCHANGED <<now, cache, enable_caching, motherduck_token, db, calls, req>>

\* db.close() / close_db_connection().
Close ==
    /\ connection' = None
    /\ UNCHANGED tpl_vars
    /\ UNCHANGED <<now, cache, enable_caching, motherduck_token, db, calls, req>>

Tick ==
    /\ now < MaxTime
    /\ now' = now + 1
    /\ UNCHANGED tpl_vars
    /\ UNCHANGED <<connection, cache, enable_caching, motherduck_token, db, calls, req>>

\* The dataset behind the engine changes.
DataChange ==
    /\ db < MaxVer
    /\ db' = db + 1
    /\ UNCHANGED tpl_vars
    /\ UNCHANGED <<now, connection, cache, enable_caching, motherduck_token, calls, req>>

Init ==
    /\ now = 0
    /\ connection = None
    /\ cache = <<>>
    /\ enable_caching \in BOOLEAN
    /\ motherduck_token \in BOOLEAN
    /\ db \in Versions
    /\ calls = [i \in CallIds |-> IdleCall]
    /\ req = NoRequest
    /\ dataset = {}
    /\ tpl = [op |-> "none"]
    /\ today = 2024

\* The connect outcomes that matter in the current state: connect is only
\* reached when there is no handle.
ConnectInputs == IF connection = None THEN ConnectOutcomes ELSE {"ok"}

\* Callers run one after another: neither connect nor the engine call yields
\* to the event loop, so a call runs to its end before the next one starts.
Next ==
    \/ \E entry \in {"method", "module"}, inp \in CallInputs,
          options \in OptionInputs, co \in ConnectInputs :
            Call(1, entry, inp, options, co)
    \/ \E eo \in EngineOutcomes, co \in ConnectInputs : Run(1, eo, co)
    \/ \E co \in ConnectOutcomes : Connect(co)
    \/ Close
    \/ Tick
    \/ DataChange

Spec == Init /\ [][Next]_vars

\* Calls of several callers in flight at once: a host that runs requests in
\* parallel, or a driver whose engine round trip yields.  The clock and the
\* dataset stand still while the calls interleave, and connecting succeeds
\* whenever the token is set.
NextConc ==
    \/ \E i \in CallIds, inp \in CallInputs, options \in OptionInputs :
            Call(i, "module", inp, options, "ok")
    \/ \E i \in CallIds, eo \in {"ok", "query_error"} : Run(i, eo, "ok")

SpecConc == Init /\ [][NextConc]_vars

\* Requests are handled one at a time; the sub-queries of a gather interleave.
NextApi ==
    \/ \E ep \in Endpoints : \E params \in ParamInputs(ep) : Receive(ep, params)
    \/ \E k \in 1..Len(req.state), co \in ConnectInputs : Issue(k, co)
    \/ \E i \in CallIds, eo \in EngineOutcomes, co \in ConnectInputs : Run(i, eo, co)
    \/ \E k \in 1..Len(req.state) : Collect(k)

SpecApi == Init /\ [][NextApi]_vars

\* ------------------------------------------------------ metric templates

\* The largest dish count given to a classifier.
MaxCount == 12

CountInputs == 0..MaxCount

\* SQL NULL, Python None: in place of a count, and in place of a number
\* with a fractional part (no denominator).
NullCount == -1

\* A number with a fractional part, as numerator over a positive denominator.
Rat(n, d) == [n |-> n, d |-> d]

Null == Rat(0, 0)

Gt(r, k) == r.n > k * r.d
Lt(r, k) == r.n < k * r.d

\* n / d rounded to the nearest integer, halves away from zero (SQL ROUND).
RoundDiv(n, d) ==
    IF n >= 0 THEN (2 * n + d) \div (2 * d)
              ELSE -((2 * (-n) + d) \div (2 * d))

\* ROUND(x * 100.0 / y, 2): a number of hundredths.
Round2(x, y) == Rat(RoundDiv(x * 10000, y), 100)

\* The row of phase_query for the per-year counts of the inner query; a
\* year without any row in the table has no count (Null), and SUM over no
\* value is NULL.
PhaseRow(previous, current) ==
    [previous_year_count |-> previous,
     current_year_count  |-> current,
     yoy_growth_percent  |->
        IF previous = NullCount \/ current = NullCount THEN Null
        ELSE IF previous = 0 THEN Null
        ELSE Round2(current - previous, previous)]

\* int(row[c]) if row[c] else 0
IntOrZero(v) == IF v = NullCount \/ v = 0 THEN 0 ELSE v

\* A description is the text of the f-string up to its number, and the
\* dish counts it names.
Description(text, counts) == [text |-> text, counts |-> counts]

classify_lifecycle_phase(previous_year_count, current_year_count, yoy_growth_percent) ==
    IF previous_year_count = 0 /\ current_year_count > 0
    THEN <<"Emerging", Description("New ingredient appearing in ", {current_year_count})>>
    ELSE IF yoy_growth_percent = Null /\ previous_year_count = 0 /\ current_year_count = 0
    THEN <<"Emerging", Description("Ingredient not yet present in dataset", {})>>
    ELSE IF yoy_growth_percent = Null /\ current_year_count = 0
    THEN <<"Declining", Description("Ingredient no longer appearing in dishes", {})>>
    ELSE IF yoy_growth_percent # Null
    THEN IF Gt(yoy_growth_percent, 20) THEN <<"Growing", Description("Strong growth of ", {})>>
         ELSE IF Lt(yoy_growth_percent, -20) THEN <<"Declining", Description("Significant decline of ", {})>>
         ELSE <<"Mature", Description("Stable with ", {})>>
    ELSE <<"Mature", Description("Stable ingredient with consistent presence", {})>>

determine_lifecycle_phase(current_count, previous_count, yoy_growth) ==
    IF previous_count = 0 /\ current_count > 0 THEN <<"Emerging", 1>>
    ELSE IF current_count = 0 THEN <<"Declining", 4>>
    ELSE IF Gt(yoy_growth, 20) THEN <<"Growing", 2>>
    ELSE IF Lt(yoy_growth, -20) THEN <<"Declining", 4>>
    ELSE <<"Mature", 3>>

\* get_summary_stats: the growth of the dish totals of the two years.
SummaryGrowth(total_2024, total_2023) ==
    IF total_2023 > 0 THEN Rat((total_2024 - total_2023) * 100, total_2023)
    ELSE IF total_2024 > 0 THEN Rat(100, 1) ELSE Rat(0, 1)

\* A request is evaluated from its counts in one step, then returns.
Idle == tpl.op = "none"

\* GET /phase: the row is read and classified.
GetIngredientPhase(previous, current) ==
    LET row == PhaseRow(previous, current)
        previous_year_count == IntOrZero(row.previous_year_count)
        current_year_count  == IntOrZero(row.current_year_count)
        yoy_growth_percent  == row.yoy_growth_percent
        r == classify_lifecycle_phase(previous_year_count, current_year_count,
                                      yoy_growth_percent)
    IN  /\ Idle
        /\ tpl' = [op |-> "classify_lifecycle_phase",
                   previous |-> previous_year_count,
                   current |-> current_year_count,
                   growth |-> yoy_growth_percent,
                   phase |-> r[1], description |-> r[2]]
        /\ UNCHANGED <<dataset, today>>
        /\ UNCHANGED exec_vars

\* GET /general/summary-stats: the totals are classified.
GetSummaryStats(total_2023, total_2024) ==
    LET yoy_growth == SummaryGrowth(total_2024, total_2023)
        r == determine_lifecycle_phase(total_2024, total_2023, yoy_growth)
    IN  /\ Idle
        /\ tpl' = [op |-> "determine_lifecycle_phase",
                   previous |-> total_2023, current |-> total_2024,
                   growth |-> yoy_growth,
                   phase |-> r[1], phase_number |-> r[2]]
        /\ UNCHANGED <<dataset, today>>
        /\ UNCHANGED exec_vars

\* ROUND(x * 100.0 / y, 1): a number of tenths.
Round1(x, y) == Rat(RoundDiv(x * 1000, y), 10)

\* A literal such as 50.0, and the value test r = k.
Num(k) == Rat(k, 1)

Eq(r, k) == r.d > 0 /\ r.n = k * r.d

\* float(row[c]) if row[c] is not None else 0.0
FloatOrZero(v) == IF v = Null THEN Num(0) ELSE v

\* The status CASE over the two periods' row counts of a category (or a
\* country); count * 1.25 is exact decimal arithmetic.
PenetrationStatus_Swapped(previous, current) ==
    IF previous = 0 /\ current > 0 THEN "Hot"
    ELSE IF previous = 0 THEN "New"
    ELSE IF current * 100 > previous * 125 THEN "Hot"
    ELSE IF current * 100 > previous * 110 THEN "Stable"
    ELSE IF current * 100 >= previous * 90 THEN "Rising"
    ELSE "Declining"

PenetrationStatus(previous, current) ==
    IF previous = 0 /\ current > 0 THEN "Hot"
    ELSE IF previous = 0 THEN "New"
    ELSE IF current * 100 > previous * 125 THEN "Hot"
    ELSE IF current * 100 > previous * 110 THEN "Rising"
    ELSE IF current * 100 >= previous * 90 THEN "Stable"
    ELSE "Declining"

\* The growth CASE next to it.
PenetrationGrowth(previous, current) ==
    IF previous = 0 /\ current > 0 THEN Num(50)
    ELSE IF previous = 0 THEN Num(0)
    ELSE Round1(current - previous, previous)

PenetrationRow(previous, current) ==
    [previous |-> previous, current |-> current,
     growth |-> FloatOrZero(PenetrationGrowth(previous, current)),
     status |-> PenetrationStatus(previous, current)]

\* get_category_analysis: the status compares the ingredient's share of the
\* category's dishes in the two years, ic / tc against ip / tp.
AnalysisStatus(ip, tp, ic, tc) ==
    IF ip = 0 /\ ic > 0 THEN "Hot"
    ELSE IF tp = 0 \/ ip = 0 THEN "New"
    ELSE IF tc = 0 THEN "Declining"
    ELSE IF ic * tp * 100 > ip * tc * 125 THEN "Hot"
    ELSE IF ic * tp * 100 > ip * tc * 110 THEN "Rising"
    ELSE IF ic * tp * 100 >= ip * tc * 90 THEN "Stable"
    ELSE "Declining"

\* ROUND(CASE ... END, 1): the difference of the two shares, in points.
AnalysisGrowth(ip, tp, ic, tc) ==
    IF tp = 0 \/ ip = 0 THEN (IF ic > 0 THEN Num(100) ELSE Num(0))
    ELSE IF tc = 0 THEN Num(0)
    ELSE Rat(RoundDiv((ic * tp - ip * tc) * 1000, tc * tp), 10)

AnalysisRow(ip, tp, ic, tc) ==
    [previous |-> ip, current |-> ic,
     total_previous |-> tp, total_current |-> tc,
     growth |-> FloatOrZero(AnalysisGrowth(ip, tp, ic, tc)),
     status |-> AnalysisStatus(ip, tp, ic, tc)]

\* GET /category-penetration: one category's row.
GetCategoryPenetration(older, recent) ==
    /\ Idle
    /\ tpl' = [op |-> "category_penetration",
               rows |-> <<PenetrationRow(older, recent)>>]
    /\ UNCHANGED <<dataset, today>>
    /\ UNCHANGED exec_vars

\* GET /category/analysis: one category's penetration row.
GetCategoryAnalysis(ip, tp, ic, tc) ==
    /\ ip <= tp
    /\ ic <= tc
    /\ Idle
    /\ tpl' = [op |-> "category_analysis", rows |-> <<AnalysisRow(ip, tp, ic, tc)>>]
    /\ UNCHANGED <<dataset, today>>
    /\ UNCHANGED exec_vars

\* GET /category/penetration and GET /geographic/penetration of
\* routers/archived: the rows of two categories (countries).
GetArchivedPenetration(route, c1, c2) ==
    /\ Idle
    /\ tpl' = [op |-> route,
               rows |-> <<PenetrationRow(c1[1], c1[2]), PenetrationRow(c2[1], c2[2])>>]
    /\ UNCHANGED <<dataset, today>>
    /\ UNCHANGED exec_vars

\* get_geographic_distribution: growth of a country's row counts; a year
\* without rows has no count.
GeographicGrowth(previous_count, current_count) ==
    IF previous_count = NullCount \/ previous_count = 0
    THEN (IF current_count # NullCount /\ current_count > 0 THEN Num(50) ELSE Num(0))
    ELSE Round1(IntOrZero(current_count) - previous_count, previous_count)

\* GET /geographic-distribution: one country's row.
GetGeographicDistribution(previous_count, current_count) ==
    /\ Idle
    /\ tpl' = [op |-> "geographic_distribution",
               rows |-> <<[previous |-> IntOrZero(previous_count),
                           current |-> IntOrZero(current_count),
                           growth |-> FloatOrZero(GeographicGrowth(previous_count,
                                                                   current_count))]>>]
    /\ UNCHANGED <<dataset, today>>
    /\ UNCHANGED exec_vars

\* yearly_pairing_data: the pairing's share of the base ingredient's dishes
\* of a year; a year without a dish of the pairing has no row.
YearlyPenetration(yearly_dishes, base_dishes_by_year) ==
    IF yearly_dishes = 0 THEN Null ELSE Round2(yearly_dishes, base_dishes_by_year)

\* growth_calculation.growth_rate
PairingGrowth(prev, curr) ==
    IF prev = Null \/ prev.n = 0
    THEN (IF curr # Null /\ curr.n > 0 THEN Num(100) ELSE Num(0))
    ELSE IF curr = Null THEN Null
    ELSE Rat(RoundDiv((curr.n * prev.d - prev.n * curr.d) * 1000, curr.d * prev.n), 10)

\* GET /pairings: the growth of one pairing, from its dishes and the base
\* ingredient's dishes in the two years.
GetPairingGrowth(prev_dishes, prev_base, curr_dishes, curr_base) ==
    /\ Idle
    /\ tpl' = [op |-> "pairings",
               rows |-> <<[previous |-> prev_dishes, current |-> curr_dishes,
                           growth |-> FloatOrZero(PairingGrowth(
                                YearlyPenetration(prev_dishes, prev_base),
                                YearlyPenetration(curr_dishes, curr_base)))]>>]
    /\ UNCHANGED <<dataset, today>>
    /\ UNCHANGED exec_vars

\* category_distribution_query: a category's share of the ingredient's rows
\* of 2024, ROUND(count_2024 * 100.0 / NULLIF(total_2024, 0), 2).
DistributionValue(count_2024, total_2024) ==
    IF total_2024 = 0 THEN Null ELSE Round2(count_2024, total_2024)

DistributionGrowth(count_2023, count_2024) ==
    IF count_2023 = 0 THEN Null ELSE Round2(count_2024 - count_2023, count_2023)

\* CategoryDistribution(...) of a row of category_distribution_query.
DistributionRow(name, count_2023, count_2024, total_2024) ==
    [name |-> name,
     dish_count |-> count_2024,
     total |-> total_2024,
     value |-> FloatOrZero(DistributionValue(count_2024, total_2024)),
     count_2023 |-> count_2023,
     yoy_growth_percentage |-> DistributionGrowth(count_2023, count_2024)]

\* GET /category-distribution: one category's row; others_2024 is what the
\* other categories add to total_2024.
GetCategoryDistribution(count_2023, count_2024, others_2024) ==
    /\ Idle
    /\ count_2023 + count_2024 + others_2024 > 0
    /\ tpl' = [op |-> "category_distribution",
               rows |-> <<DistributionRow("Dessert", count_2023, count_2024,
                                          count_2024 + others_2024)>>]
    /\ UNCHANGED <<dataset, today>>
    /\ UNCHANGED exec_vars

\* The handler returns its response; the next request starts afresh.
Return ==
    /\ tpl.op # "none"
    /\ tpl' = [op |-> "none"]
    /\ UNCHANGED <<dataset, today>>
    /\ UNCHANGED exec_vars

NextMetric ==
    \/ Idle /\ \E previous \in CountInputs \cup {NullCount},
                   current \in CountInputs \cup {NullCount} :
                    GetIngredientPhase(previous, current)
    \/ Idle /\ \E total_2023 \in CountInputs, total_2024 \in CountInputs :
                    GetSummaryStats(total_2023, total_2024)
    \/ Idle /\ \E older \in CountInputs, recent \in CountInputs :
                    GetCategoryPenetration(older, recent)
    \/ Idle /\ \E tp \in CountInputs, tc \in CountInputs :
                \E ip \in 0..tp, ic \in 0..tc :
                    GetCategoryAnalysis(ip, tp, ic, tc)
    \/ Idle /\ \E route \in {"archived_category_penetration",
                               "archived_geographic_penetration"},
                   c1 \in CountInputs \X CountInputs,
                   c2 \in CountInputs \X CountInputs :
                    GetArchivedPenetration(route, c1, c2)
    \/ Idle /\ \E previous_count \in CountInputs \cup {NullCount},
                   current_count \in CountInputs \cup {NullCount} :
                    GetGeographicDistribution(previous_count, current_count)
    \/ Idle /\ \E prev_base \in CountInputs, curr_base \in CountInputs :
                \E prev_dishes \in 0..prev_base, curr_dishes \in 0..curr_base :
                    GetPairingGrowth(prev_dishes, prev_base, curr_dishes, curr_base)
    \/ Idle /\ \E count_2023 \in CountInputs, count_2024 \in CountInputs,
                   others_2024 \in CountInputs :
                    GetCategoryDistribution(count_2023, count_2024, others_2024)
    \/ Return

\* The templates are pure: the executor's state stands still.
InitMetric == Init /\ enable_caching /\ motherduck_token /\ db = 0

SpecMetric == InitMetric /\ [][NextMetric]_vars


\* ------------------------------------------------------------ the dataset

\* The dishes a dataset holds at most.
MaxDish == 2

CURRENT_YEAR == 2024

DishIds == 1..MaxDish

\* Ingredient names, as their words in lower case.
IngredientNames == { <<"matcha">>, <<"matcha", "latte">>, <<"rice">> }

\* The ingredient lists a dish may have.
DishIngredients ==
    { {<<"matcha">>}, {<<"matcha">>, <<"matcha", "latte">>},
      {<<"rice">>}, {<<"matcha">>, <<"rice">>} }

Categories == {"Dessert", "Drink"}

DishYears == {CURRENT_YEAR - 2, CURRENT_YEAR - 1, CURRENT_YEAR}

\* The ingredient of the requests.
Ingredient == <<"matcha">>

\* name ILIKE '%pattern%'
ILike(name, pattern) ==
    \E i \in 1..(Len(name) - Len(pattern) + 1) :
        SubSeq(name, i, i + Len(pattern) - 1) = pattern

\* ingredient_details has one row per ingredient of a dish.
DishRows(dish_id, year, general_category, names) ==
    { [dish_id |-> dish_id, year |-> year, general_category |-> general_category,
       ingredient_name |-> n] : n \in names }

\* A dish is added to the dataset, with all its ingredient rows.
InsertDish(dish_id, year, general_category, names) ==
    /\ Idle
    /\ \A r \in dataset : r.dish_id # dish_id
    /\ dataset' = dataset \cup DishRows(dish_id, year, general_category, names)
    /\ UNCHANGED <<tpl, today>>
    /\ UNCHANGED exec_vars

\* WHERE ingredient_name ILIKE pattern
Matching(ingredient) == { r \in dataset : ILike(r.ingredient_name, ingredient) }

\* COUNT(*) and COUNT(DISTINCT dish_id) of a set of rows.
CountRows(rows) == Cardinality(rows)

CountDistinctDishes(rows) == Cardinality({ r.dish_id : r \in rows })

\* The handlers below are evaluated over the dataset.  The rows of a
\* response are kept as a set, one row per category: their order (ORDER BY,
\* colours by index) is left out.

\* GET /category-distribution (category_router.py): ingredient_counts counts
\* rows, pivoted sums them per category for 2023 and 2024.
CategoryDistributionData(ingredient) ==
    LET m == Matching(ingredient)
        count(c, y) == CountRows({ r \in m : r.general_category = c /\ r.year = y })
        total_2024 == CountRows({ r \in m : r.year = 2024 })
    IN  { DistributionRow(c, count(c, 2023), count(c, 2024), total_2024) :
            c \in { r.general_category : r \in m } }

GetCategoryDistributionData ==
    /\ Idle
    /\ tpl' = [op |-> "category_distribution_data",
               rows |-> CategoryDistributionData(Ingredient)]
    /\ UNCHANGED <<dataset, today>>
    /\ UNCHANGED exec_vars

\* GET /category-penetration (category_penetration_router.py): COUNT(*) per
\* category of the matching rows and of all rows; recent and older are the
\* matching rows of the last two years and of the year before them.
CategoryPenetrationData(ingredient) ==
    LET m == Matching(ingredient)
        of(rows, c) == { r \in rows : r.general_category = c }
        ingredient_count(c) == CountRows(of(m, c))
        total_count(c) == CountRows(of(dataset, c))
        recent(c) == CountRows({ r \in of(m, c) : r.year >= today - 1 })
        older(c)  == CountRows({ r \in of(m, c) : r.year = today - 2 })
    IN  { [name |-> c,
           ingredient_count |-> ingredient_count(c),
           total_count |-> total_count(c),
           penetration |-> FloatOrZero(Round1(ingredient_count(c), total_count(c))),
           growth |-> FloatOrZero(PenetrationGrowth(older(c), recent(c))),
           status |-> PenetrationStatus(older(c), recent(c))] :
            c \in { r.general_category : r \in m } }

GetCategoryPenetrationData ==
    /\ Idle
    /\ tpl' = [op |-> "category_penetration_data",
               rows |-> CategoryPenetrationData(Ingredient)]
    /\ UNCHANGED <<dataset, today>>
    /\ UNCHANGED exec_vars

\* GET /category/analysis (category_analysis_router.py): both queries count
\* DISTINCT dish_id.
AnalysisDistributionData(ingredient) ==
    LET m == Matching(ingredient)
        of(c) == { r \in m : r.general_category = c }
        total == CountDistinctDishes(m)
        dish_count(c) == CountDistinctDishes(of(c))
        count_previous(c) ==
            CountDistinctDishes({ r \in of(c) : r.year = CURRENT_YEAR - 1 })
        count_current(c) ==
            CountDistinctDishes({ r \in of(c) : r.year = CURRENT_YEAR })
    IN  { [name |-> c,
           dish_count |-> dish_count(c),
           value |-> FloatOrZero(IF total = 0 THEN Null ELSE Round2(dish_count(c), total)),
           count_previous |-> count_previous(c),
           yoy_growth_percentage |->
                IF count_previous(c) = 0 THEN Null
                ELSE Round2(count_current(c) - count_previous(c), count_previous(c))] :
            c \in { r.general_category : r \in m } }

AnalysisPenetrationData(ingredient) ==
    LET m == Matching(ingredient)
        with == { r.dish_id : r \in m }
        of(c, y) == { r \in dataset : r.general_category = c /\ r.year = y }
        tp(c) == CountDistinctDishes(of(c, CURRENT_YEAR - 1))
        tc(c) == CountDistinctDishes(of(c, CURRENT_YEAR))
        ip(c) == CountDistinctDishes({ r \in of(c, CURRENT_YEAR - 1) : r.dish_id \in with })
        ic(c) == CountDistinctDishes({ r \in of(c, CURRENT_YEAR) : r.dish_id \in with })
        ingredient_dish_count(c) ==
            CountDistinctDishes({ r \in m : r.general_category = c })
        total_dish_count(c) ==
            CountDistinctDishes({ r \in dataset : r.general_category = c })
    IN  { [name |-> c,
           ingredient_count |-> ingredient_dish_count(c),
           total_count |-> total_dish_count(c),
           penetration |-> FloatOrZero(Round1(ingredient_dish_count(c), total_dish_count(c))),
           growth |-> FloatOrZero(AnalysisGrowth(ip(c), tp(c), ic(c), tc(c))),
           status |-> AnalysisStatus(ip(c), tp(c), ic(c), tc(c))] :
            c \in { r.general_category : r \in m } }

GetCategoryAnalysisData ==
    LET distribution == AnalysisDistributionData(Ingredient)
        penetration  == AnalysisPenetrationData(Ingredient)
    IN  /\ Idle
        /\ tpl' = [op |-> "category_analysis_data",
                   status_code |-> IF distribution = {} \/ penetration = {} THEN 404 ELSE 200,
                   rows |-> distribution,
                   penetration |-> penetration]
        /\ UNCHANGED <<dataset, today>>
        /\ UNCHANGED exec_vars

NextData ==
    \/ Idle /\ \E dish_id \in DishIds, year \in DishYears,
                  general_category \in Categories, names \in DishIngredients :
                    InsertDish(dish_id, year, general_category, names)
    \/ GetCategoryDistributionData
    \/ GetCategoryPenetrationData
    \/ GetCategoryAnalysisData
    \/ Return

SpecData == InitMetric /\ [][NextData]_vars

\* ------------------------------------------------------------ trends

\* The years a dish of the trend datasets may be dated, one dish a year:
\* from before the lower bound 2018 to the year after CURRENT_YEAR.
TrendYears == 2017..(CURRENT_YEAR + 1)

\* A dish of the given year is added: its identifier is the year.
InsertYearDish(year, names) ==
    /\ Idle
    /\ \A r \in dataset : r.dish_id # year
    /\ dataset' = dataset \cup DishRows(year, year, "Dessert", names)
    /\ UNCHANGED <<tpl, today>>
    /\ UNCHANGED exec_vars

\* The engine's date passes into the next year.
NewYear ==
    /\ Idle
    /\ today < CURRENT_YEAR + 1
    /\ today' = today + 1
    /\ UNCHANGED <<dataset, tpl>>
    /\ UNCHANGED exec_vars

\* ORDER BY ... ASC of a set of numbers, and LIMIT n.
RECURSIVE Ascending(_)
Ascending(S) ==
    IF S = {} THEN <<>>
    ELSE LET least == CHOOSE x \in S : \A y \in S : x <= y
         IN  <<least>> \o Ascending(S \ {least})

Limit(seq, n) == SubSeq(seq, 1, IF Len(seq) < n THEN Len(seq) ELSE n)

\* years_query of get_category_trends and of get_subcategory_trends.
YearsQuery ==
    Limit(Ascending({ r.year : r \in { x \in dataset : x.year >= 2018 /\ x.year <= today } }), 7)

\* The list a handler fills for one category: [0] * len(years), then the
\* value of each row whose year is in years.
PadSeries_Omit(years, points) ==
    LET with == SelectSeq(years, LAMBDA y : \E pt \in points : pt.year = y)
    IN  [k \in 1..Len(with) |-> (CHOOSE pt \in points : pt.year = with[k]).value]

PadSeries(years, points) ==
    [k \in 1..Len(years) |->
        IF \E pt \in points : pt.year = years[k]
        THEN (CHOOSE pt \in points : pt.year = years[k]).value
        ELSE Num(0)]

\* category_trends_query: per year and category of the range, the share of
\* the category's dishes that have the ingredient.
CategoryTrendsQuery(ingredient) ==
    LET range == { r \in dataset : r.year >= 2018 /\ r.year <= today }
        m == { r \in range : ILike(r.ingredient_name, ingredient) }
        of(rows, y, c) == { r \in rows : r.year = y /\ r.general_category = c }
    IN  { [year |-> g[1], name |-> g[2],
           value |-> FloatOrZero(Round2(CountDistinctDishes(of(m, g[1], g[2])),
                                        CountDistinctDishes(of(range, g[1], g[2]))))] :
            g \in { <<r.year, r.general_category>> : r \in range } }

\* subcategory_trends_query: per year and category, the matching rows.
SubcategoryTrendsQuery(ingredient) ==
    LET m == { r \in Matching(ingredient) : r.year >= 2018 /\ r.year <= today }
        of(y, c) == { r \in m : r.year = y /\ r.general_category = c }
    IN  { [year |-> g[1], name |-> g[2], value |-> Num(CountRows(of(g[1], g[2])))] :
            g \in { <<r.year, r.general_category>> : r \in m } }

\* The series of a trend response, one per category of the rows.
SeriesOf(years, rows) ==
    { [name |-> c, values |-> PadSeries(years, { r \in rows : r.name = c })] :
        c \in { r.name : r \in rows } }

\* GET /category/trends
GetCategoryTrends ==
    LET years == YearsQuery
        rows  == CategoryTrendsQuery(Ingredient)
    IN  /\ Idle
        /\ tpl' = IF years = <<>> \/ rows = {}
                  THEN [op |-> "category_trends", status_code |-> 404,
                        years |-> <<>>, series |-> {}]
                  ELSE [op |-> "category_trends", status_code |-> 200,
                        years |-> years, series |-> SeriesOf(years, rows)]
        /\ UNCHANGED <<dataset, today>>
        /\ UNCHANGED exec_vars

\* GET /subcategory-trends
GetSubcategoryTrends ==
    LET years == YearsQuery
        rows  == SubcategoryTrendsQuery(Ingredient)
    IN  /\ Idle
        /\ tpl' = IF years # <<>> /\ rows # {}
                  THEN [op |-> "subcategory_trends", status_code |-> 200,
                        years |-> years, series |-> SeriesOf(years, rows)]
                  ELSE [op |-> "subcategory_trends", status_code |-> 200,
                        years |-> <<>>, series |-> {}]
        /\ UNCHANGED <<dataset, today>>
        /\ UNCHANGED exec_vars

\* GET /general/trends: one data point per year of trend_query, the years
\* from 2018 on.
GetTrend ==
    LET range == { r \in dataset : r.year >= 2018 }
        years == Ascending({ r.year : r \in range })
        m == { r \in range : ILike(r.ingredient_name, Ingredient) }
        adoption(y) ==
            FloatOrZero(Round2(CountDistinctDishes({ r \in m : r.year = y }),
                               CountDistinctDishes({ r \in range : r.year = y })))
    IN  /\ Idle
        /\ tpl' = [op |-> "general_trends", status_code |-> 200,
                   years |-> years,
                   series |-> IF years = <<>> THEN {}
                              ELSE { [name |-> "adoption_percentage",
                                      values |-> [k \in 1..Len(years) |-> adoption(years[k])]] }]
        /\ UNCHANGED <<dataset, today>>
        /\ UNCHANGED exec_vars

NextTrend ==
    \/ Idle /\ \E year \in TrendYears, names \in { {<<"matcha">>}, {<<"rice">>} } :
                    InsertYearDish(year, names)
    \/ NewYear
    \/ GetCategoryTrends
    \/ GetSubcategoryTrends
    \/ GetTrend
    \/ Return

SpecTrend == InitMetric /\ [][NextTrend]_vars

\* ------------------------------------------------------------ pairings

\* The dishes the table ingredient_pairings holds at most.
MaxPairDish == 3

PairDishIds == 1..MaxPairDish

\* The dishes are dated in turn to the previous and to the current year.
YearOfDish(dish_id) == IF dish_id % 2 = 1 THEN CURRENT_YEAR - 1 ELSE CURRENT_YEAR

\* What a dish with the base ingredient may be paired with: the paired
\* ingredient and its flavor role.
PairedInputs ==
    { {<<"honey", "supporting">>},
      {<<"honey", "supporting">>, <<"mint", "supporting">>},
      {<<"honey", "background">>, <<"mint", "supporting">>} }

\* ingredient_pairings has one row per dish and paired ingredient.
PairingRows(dish_id, general_category, paired) ==
    { [dish_id |-> dish_id, year |-> YearOfDish(dish_id),
       general_category |-> general_category,
       base_ingredient |-> Ingredient,
       paired_ingredient |-> <<pr[1]>>, paired_flavor_role |-> pr[2]] : pr \in paired }

InsertPairedDish(dish_id, general_category, paired) ==
    /\ Idle
    /\ \A r \in dataset : r.dish_id # dish_id
    /\ dataset' = dataset \cup PairingRows(dish_id, general_category, paired)
    /\ UNCHANGED <<tpl, today>>
    /\ UNCHANGED exec_vars

\* A query parameter that was not given.
Absent == <<>>

\* base_where and pairing_where, with the category filter.
BaseWhere(r, ingredient, category) ==
    /\ ILike(r.base_ingredient, ingredient)
    /\ category # Absent => r.general_category = category[1]

PairingWhere(r, ingredient, category) ==
    /\ BaseWhere(r, ingredient, category)
    /\ r.paired_flavor_role # "background"
    /\ r.base_ingredient # r.paired_ingredient

\* x <= y of two numbers with a fractional part.
Le(x, y) == x.n * y.d <= y.n * x.d

\* growth_calculation.lifecycle_phase; a comparison with NULL is not true.
PairingPhase(share_percentage, growth_rate) ==
    IF growth_rate = Null THEN "mature"
    ELSE IF Lt(share_percentage, 5) /\ Gt(growth_rate, 15) THEN "emerging"
    ELSE IF ~Lt(share_percentage, 5) /\ ~Gt(share_percentage, 25) /\ Gt(growth_rate, 5)
         THEN "growing"
    ELSE IF ~Lt(share_percentage, 25) /\ Lt(growth_rate, -5) THEN "declining"
    ELSE "mature"

\* growth_calculation: one row per paired ingredient.
GrowthCalculation(ingredient, category) ==
    LET base == { r \in dataset : BaseWhere(r, ingredient, category) }
        pair == { r \in dataset : PairingWhere(r, ingredient, category) }
        total_base_dishes == CountDistinctDishes(base)
        of(p) == { r \in pair : r.paired_ingredient = p }
        unique_dishes(p) == CountDistinctDishes(of(p))
        share_percentage(p) ==
            IF total_base_dishes = 0 THEN Num(0)
            ELSE Round1(unique_dishes(p), total_base_dishes)
        penetration(p, y) ==
            YearlyPenetration(CountDistinctDishes({ r \in of(p) : r.year = y }),
                              CountDistinctDishes({ r \in base : r.year = y }))
        growth_rate(p) ==
            PairingGrowth(penetration(p, CURRENT_YEAR - 1), penetration(p, CURRENT_YEAR))
    IN  { [paired_ingredient |-> p,
           unique_dishes |-> unique_dishes(p),
           share_percentage |-> share_percentage(p),
           growth_rate |-> growth_rate(p),
           lifecycle_phase |-> PairingPhase(share_percentage(p), growth_rate(p))] :
            p \in { r.paired_ingredient : r \in pair } }

\* The final WHERE of count_query and of main_query: the threshold, then the
\* additional filters, each joined with AND.
FinalWhere_NoThreshold(gc, lifecycle_phase, search) ==
    /\ lifecycle_phase # Absent => gc.lifecycle_phase = lifecycle_phase[1]
    /\ search # Absent => ILike(gc.paired_ingredient, search)

FinalWhere(gc, lifecycle_phase, search) ==
    /\ gc.unique_dishes >= 3
    /\ lifecycle_phase # Absent => gc.lifecycle_phase = lifecycle_phase[1]
    /\ search # Absent => ILike(gc.paired_ingredient, search)

\* count_query: SELECT COUNT(*) FROM growth_calculation gc WHERE ...
CountQuery(ingredient, category, lifecycle_phase, search) ==
    Cardinality({ gc \in GrowthCalculation(ingredient, category) :
                    FinalWhere(gc, lifecycle_phase, search) })

\* The value ORDER BY sorts on, for the two numeric sort columns.
SortKey(gc, sort_column) ==
    IF sort_column = "gc.growth_rate" THEN gc.growth_rate ELSE gc.share_percentage

\* ORDER BY sort_column sort_dir: the rows in an order the engine may return
\* them in. NULL sorts last; rows with equal keys come in either order.
InOrder(first, second, sort_column, sort_dir) ==
    LET x == SortKey(first, sort_column)
        y == SortKey(second, sort_column)
    IN  IF y = Null THEN TRUE
        ELSE IF x = Null THEN FALSE
        ELSE IF sort_dir = "ASC" THEN Le(x, y) ELSE Le(y, x)

OrderBy(rows, sort_column, sort_dir) ==
    { order \in [1..Cardinality(rows) -> rows] :
        /\ \A i, j \in DOMAIN order : i # j => order[i] # order[j]
        /\ \A i, j \in DOMAIN order :
              i < j => InOrder(order[i], order[j], sort_column, sort_dir) }

\* LIMIT limit OFFSET offset
LimitOffset(order, limit, offset) ==
    [i \in 1..(IF Len(order) - offset < 0 THEN 0
               ELSE IF Len(order) - offset < limit THEN Len(order) - offset
               ELSE limit) |-> order[offset + i]]

\* main_query: the rows of one page, in each order the engine may give.
MainQuery(ingredient, category, lifecycle_phase, search, sort_column, sort_dir, limit, offset) ==
    { LimitOffset(order, limit, offset) :
        order \in OrderBy({ gc \in GrowthCalculation(ingredient, category) :
                              FinalWhere(gc, lifecycle_phase, search) },
                          sort_column, sort_dir) }

\* str.title() of an ingredient name
Title(name) ==
    [i \in DOMAIN name |->
        CASE name[i] = "honey" -> "Honey"
          [] name[i] = "mint" -> "Mint"
          [] name[i] = "matcha" -> "Matcha"
          [] OTHER -> name[i]]

\* math.ceil(total_items / limit) if total_items > 0 else 1
TotalPages(total_items, limit) ==
    IF total_items > 0 THEN (total_items + limit - 1) \div limit ELSE 1

\* PairingData of one row of main_query
PairingData(row) ==
    [partner_name |-> Title(row.paired_ingredient),
     share_percent |-> FloatOrZero(row.share_percentage),
     growth |-> FloatOrZero(row.growth_rate),
     lifecycle_phase |-> row.lifecycle_phase]

\* The filters a request gives or leaves out.
CategoryInputs == {Absent, <<"Dessert">>, <<"All Categories">>}
PhaseInputs == {Absent, <<"mature">>}
SearchInputs == {Absent, <<"honey">>}

\* page and limit; sort_by and sort_direction
PagingInputs == {<<1, 25>>, <<1, 1>>, <<2, 1>>}
SortInputs == {<<"share_percent", "desc">>, <<"growth", "asc">>}

\* if category and category.lower() != "all categories"
CategoryFilter(category) ==
    IF category # Absent /\ category # <<"All Categories">> THEN category ELSE Absent

\* if lifecycle_phase and lifecycle_phase.lower() != "all"
PhaseFilter(lifecycle_phase) ==
    IF lifecycle_phase # Absent /\ lifecycle_phase # <<"all">> THEN lifecycle_phase
    ELSE Absent

\* GET /pairings.  A page without rows is answered by the branch
\* 'if not result["rows"]', with has_next and has_previous False.
GetPairings(category, page, limit, sort_by, sort_direction, lifecycle_phase, search) ==
    LET sort_column == SortColumn(sort_by)
        sort_dir == IF sort_direction = "asc" THEN "ASC" ELSE "DESC"
        offset == (page - 1) * limit
        total_items == CountQuery(Ingredient, CategoryFilter(category),
                                  PhaseFilter(lifecycle_phase), search)
        total_pages == TotalPages(total_items, limit)
    IN  /\ Idle
        /\ \E rows \in MainQuery(Ingredient, CategoryFilter(category),
                                 PhaseFilter(lifecycle_phase), search,
                                 sort_column, sort_dir, limit, offset) :
              tpl' = [op |-> "pairings",
                      category |-> category, lifecycle_phase |-> lifecycle_phase,
                      search |-> search, page |-> page, limit |-> limit,
                      pairings |-> [i \in DOMAIN rows |-> PairingData(rows[i])],
                      total_pairings |-> total_items,
                      total_pages |-> total_pages,
                      total_items |-> total_items,
                      has_next |-> IF rows = <<>> THEN FALSE ELSE page < total_pages,
                      has_previous |-> IF rows = <<>> THEN FALSE ELSE page > 1]
        /\ UNCHANGED <<dataset, today>>
        /\ UNCHANGED exec_vars

NextPairings ==
    \/ Idle /\ \E d \in PairDishIds, c \in Categories, paired \in PairedInputs :
                  InsertPairedDish(d, c, paired)
    \/ Idle /\ \E category \in CategoryInputs, paging \in PagingInputs, sort \in SortInputs,
                  lifecycle_phase \in PhaseInputs, search \in SearchInputs :
                  GetPairings(category, paging[1], paging[2], sort[1], sort[2],
                              lifecycle_phase, search)
    \/ Return

SpecPairings == InitMetric /\ [][NextPairings]_vars

\* ---------------------------------------------------------- query text

\* The longest ingredient a request gives, in characters.
MaxStr == 2

Chars == {"a", "'"}

\* The ingredient parameter: any string of the two characters, the empty
\* one included.
IngredientInputs == UNION { [1..n -> Chars] : n \in 0..MaxStr }

\* An optional filter parameter: not given, a plain word, a word with a quote.
FilterInputs == { <<>>, <<"a">>, <<"a", "'", "a">> }

\* str.replace("'", "''")
RECURSIVE Escape(_)
Escape(text) ==
    IF text = <<>> THEN <<>>
    ELSE (IF Head(text) = "'" THEN <<"'", "'">> ELSE <<Head(text)>>) \o Escape(Tail(text))

\* f"'%{value}%'" and f"'{value}'": the literal a value is embedded in.
PatternLiteral(value) == <<"'", "%">> \o value \o <<"%", "'">>

EqualsLiteral(value) == <<"'">> \o value \o <<"'">>

Embedded(param, value, literal) == [param |-> param, value |-> value, literal |-> literal]

\* GET /phase: ingredient_pattern
PhaseLiterals(ingredient) ==
    LET ingredient_escaped == Escape(ingredient)
    IN  { Embedded("ingredient", ingredient, PatternLiteral(ingredient_escaped)) }

\* GET /pairings: base_where, pairing_where, category_condition and
\* additional_filters
PairingsLiterals(ingredient, category, lifecycle_phase, search) ==
    { Embedded("ingredient", ingredient, PatternLiteral(ingredient)) }
    \cup (IF category # <<>>
          THEN { Embedded("category", category, EqualsLiteral(Escape(category))) }
          ELSE {})
    \cup (IF lifecycle_phase # <<>>
          THEN { Embedded("lifecycle_phase", lifecycle_phase,
                          EqualsLiteral(Escape(lifecycle_phase))) }
          ELSE {})
    \cup (IF search # <<>>
          THEN { Embedded("search", search, PatternLiteral(Escape(search))) }
          ELSE {})

\* GET /dish/top-dishes: ingredient_pattern and filters
TopDishesLiterals(ingredient, category, subcategory, cuisine, country) ==
    { Embedded("ingredient", ingredient, PatternLiteral(ingredient)) }
    \cup (IF category # <<>>
          THEN { Embedded("category", category, PatternLiteral(category)) } ELSE {})
    \cup (IF subcategory # <<>>
          THEN { Embedded("subcategory", subcategory, PatternLiteral(subcategory)) } ELSE {})
    \cup (IF cuisine # <<>>
          THEN { Embedded("cuisine", cuisine, PatternLiteral(cuisine)) } ELSE {})
    \cup (IF country # <<>>
          THEN { Embedded("country", country, PatternLiteral(country)) } ELSE {})

\* A handler builds its query text: the literals it embeds the request's
\* strings in.
BuildQuery(handler, literals) ==
    /\ Idle
    /\ tpl' = [op |-> "query", handler |-> handler, literals |-> literals]
    /\ UNCHANGED <<dataset, today>>
    /\ UNCHANGED exec_vars

BuildPhaseQuery(ingredient) == BuildQuery("get_ingredient_phase", PhaseLiterals(ingredient))

BuildPairingsQuery(ingredient, category, lifecycle_phase, search) ==
    BuildQuery("get_ingredient_pairings",
               PairingsLiterals(ingredient, category, lifecycle_phase, search))

BuildTopDishesQuery(ingredient, category, subcategory, cuisine, country) ==
    BuildQuery("get_top_dishes",
               TopDishesLiterals(ingredient, category, subcategory, cuisine, country))

NextQuery ==
    \/ Idle /\ \E ingredient \in IngredientInputs : BuildPhaseQuery(ingredient)
    \/ Idle /\ \E ingredient \in IngredientInputs,
                  category \in FilterInputs, lifecycle_phase \in FilterInputs,
                  search \in FilterInputs :
                  BuildPairingsQuery(ingredient, category, lifecycle_phase, search)
    \/ Idle /\ \E ingredient \in IngredientInputs,
                  category \in FilterInputs, subcategory \in FilterInputs,
                  cuisine \in FilterInputs, country \in FilterInputs :
                  BuildTopDishesQuery(ingredient, category, subcategory, cuisine, country)
    \/ Return

SpecQuery == InitMetric /\ [][NextQuery]_vars

\* ------------------------------------------------------ pairing dishes

\* The rows of ranked_dishes a pairing has at most.
MaxRanked == 5

\* dish_name values, as characters: two plain names and one with the
\* delimiter in it.
DishNames == { <<"a">>, <<"b">>, <<"a", ",", "b">> }

\* ranked_dishes of one pairing, in the order of rn: one row per dish_name and
\* star_rating.
RankedInputs == UNION { [1..n -> DishNames] : n \in 0..MaxRanked }

\* WHERE rn <= 4
TopRanked(ranked) == SubSeq(ranked, 1, IF Len(ranked) < 4 THEN Len(ranked) ELSE 4)

\* STRING_AGG(dish_name, ',')
RECURSIVE StringAgg(_)
StringAgg(names) ==
    IF names = <<>> THEN <<>>
    ELSE IF Len(names) = 1 THEN names[1]
    ELSE names[1] \o <<",">> \o StringAgg(Tail(names))

\* str.split(','): the pieces between the delimiters.
RECURSIVE SplitFrom(_, _)
SplitFrom(text, piece) ==
    IF text = <<>> THEN <<piece>>
    ELSE IF Head(text) = "," THEN <<piece>> \o SplitFrom(Tail(text), <<>>)
    ELSE SplitFrom(Tail(text), Append(piece, Head(text)))

Split(text) == SplitFrom(text, <<>>)

\* str.strip()
RECURSIVE Strip(_)
Strip(text) ==
    IF text = <<>> THEN <<>>
    ELSE IF Head(text) = " " THEN Strip(Tail(text))
    ELSE IF text[Len(text)] = " " THEN Strip(SubSeq(text, 1, Len(text) - 1))
    ELSE text

\* dishes = [dish.strip() for dish in row["top_dishes_data"].split(',')[:5]]
ParseTopDishes(top_dishes_data) ==
    IF top_dishes_data = <<>> THEN <<>>
    ELSE LET pieces == Split(top_dishes_data)
             kept == SubSeq(pieces, 1, IF Len(pieces) < 5 THEN Len(pieces) ELSE 5)
         IN  [i \in DOMAIN kept |-> Strip(kept[i])]

\* GET /pairings: the top_dishes of one pairing, from its ranked dishes.
GetPairingDishes(ranked) ==
    LET top_dishes_data == StringAgg(TopRanked(ranked))
    IN  /\ Idle
        /\ tpl' = [op |-> "top_dishes", ranked |-> ranked,
                   top_dishes_data |-> top_dishes_data,
                   top_dishes |-> ParseTopDishes(top_dishes_data)]
        /\ UNCHANGED <<dataset, today>>
        /\ UNCHANGED exec_vars

NextDishes ==
    \/ Idle /\ \E ranked \in RankedInputs : GetPairingDishes(ranked)
    \/ Return

SpecDishes == InitMetric /\ [][NextDishes]_vars

\* --------------------------------------------------- consumer insights

AttributeTypes ==
    {"flavor", "texture", "aroma", "diet", "functional_health", "occasions",
     "convenience", "social", "emotional", "cooking_technique"}

\* ATTRIBUTE_CONFIG[attribute_type]["table"]
AttributeTable(attribute_type) == <<"ingredient", attribute_type>>

\* start_year or end_year not given.
NoYear == "None"

\* The years as they are formatted into the text.
YearInputs == {NoYear, "2020", "2022"}

\* The raw_name values the distribution query returns: none, or some.
TopAttributeInputs == { <<>>, <<"sweet">>, <<"sweet", "nutty">> }

\* The pieces of query text, in order, each a tuple of words.  The clause the year filter is attached
\* to is the same text in all three queries.
IngredientClause == <<"WHERE ingredient_name ILIKE", Ingredient[1]>>

DistributionQuery(table_name) ==
    << <<"WITH attribute_counts AS (SELECT">>, <<"FROM">> \o table_name, IngredientClause,
       <<"AND attribute IS NOT NULL">>, <<"GROUP BY attribute)">>,
       <<"SELECT name, raw_name, percentage">>, <<"ORDER BY percentage DESC LIMIT 6">> >>

TrendsQuery(table_name, top_6_attribute_names) ==
    IF top_6_attribute_names # <<>>
    THEN << <<"WITH attribute_yearly AS (SELECT">>, <<"FROM">> \o table_name, IngredientClause,
            <<"AND attribute IS NOT NULL">>, <<"AND year BETWEEN 1900 AND 2030">>,
            <<"AND attribute IN">> \o top_6_attribute_names, <<"GROUP BY year, attribute)">>,
            <<"SELECT year, attribute_name, percentage">>, <<"ORDER BY year, attribute_name">> >>
    ELSE << <<"SELECT '' as year, '' as attribute_name, 0 as percentage WHERE 1=0">> >>

DetailedAttributesQuery(table_name) ==
    << <<"SELECT attribute, mention_count">>, <<"FROM">> \o table_name, IngredientClause,
       <<"AND attribute IS NOT NULL">>, <<"GROUP BY attribute">>,
       <<"ORDER BY mention_count DESC LIMIT 10">> >>

\* year_filter: the piece of text for the years given, <<>> for none.
YearFilter(start_year, end_year) ==
    IF start_year # NoYear /\ end_year # NoYear
    THEN << <<"AND TRY_CAST(year AS INTEGER) BETWEEN", start_year, end_year>> >>
    ELSE IF start_year # NoYear
    THEN << <<"AND TRY_CAST(year AS INTEGER) >=", start_year>> >>
    ELSE IF end_year # NoYear
    THEN << <<"AND TRY_CAST(year AS INTEGER) <=", end_year>> >>
    ELSE <<>>

\* str.replace(old, new) of a query text, new being old and what follows it.
RECURSIVE Replace(_, _, _)
Replace(text, old, new) ==
    IF text = <<>> THEN <<>>
    ELSE (IF Head(text) = old THEN new ELSE <<Head(text)>>) \o Replace(Tail(text), old, new)

\* GET /consumer-insights/{attribute_type}: the texts sent to execute_query,
\* in the order they are sent, and the texts the handler holds at its end.
GetAttributeInsights(attribute_type, start_year, end_year, top_6_attribute_names) ==
    LET table_name == AttributeTable(attribute_type)
        current_distribution_query == DistributionQuery(table_name)
        distribution_sent == current_distribution_query
        trends_query == TrendsQuery(table_name, top_6_attribute_names)
        detailed_attributes_query == DetailedAttributesQuery(table_name)
        year_filter == YearFilter(start_year, end_year)
        filtered_distribution_query ==
            IF year_filter # <<>>
            THEN Replace(current_distribution_query, IngredientClause,
                         <<IngredientClause>> \o year_filter)
            ELSE current_distribution_query
        filtered_attributes_query ==
            IF year_filter # <<>>
            THEN Replace(detailed_attributes_query, IngredientClause,
                         <<IngredientClause>> \o year_filter)
            ELSE detailed_attributes_query
    IN  /\ Idle
        /\ tpl' = [op |-> "insights", attribute_type |-> attribute_type,
                   start_year |-> start_year, end_year |-> end_year,
                   year_filter |-> year_filter,
                   executed |-> << distribution_sent, trends_query,
                                   filtered_attributes_query >>,
                   current_distribution_query |-> filtered_distribution_query]
        /\ UNCHANGED <<dataset, today>>
        /\ UNCHANGED exec_vars

NextInsights ==
    \/ Idle /\ \E attribute_type \in AttributeTypes, start_year \in YearInputs,
                  end_year \in YearInputs, names \in TopAttributeInputs :
                  GetAttributeInsights(attribute_type, start_year, end_year, names)
    \/ Return

SpecInsights == InitMetric /\ [][NextInsights]_vars

\* -------------------------------------------------------- applications

\* The rows applications_query returns at most.
MaxApplications == 2

\* growth and share_percent of a row of applications_query.
ApplicationRowInputs ==
    { [title |-> t, growth |-> g, share_percent |-> sh] :
        t \in {"Latte", "Cake"}, g \in {Num(-15), Num(0), Num(10), Num(25), Null},
        sh \in {Num(40), Num(60)} }

MainResultInputs == UNION { [1..n -> ApplicationRowInputs] : n \in 0..MaxApplications }

\* The lifecycle_phase parameter: not given, or one of the phases.
NoPhase == "None"

LifecyclePhaseInputs == {NoPhase, "emerging", "growing", "mature", "declining"}

\* min_share: not given (Null), or a percentage.
MinShareInputs == {Null, Num(50)}

\* "Determine lifecycle phase" of get_detailed_applications
ApplicationPhase(growth) ==
    IF Gt(growth, 20) THEN "emerging"
    ELSE IF Gt(growth, 5) THEN "growing"
    ELSE IF Lt(growth, -10) THEN "declining"
    ELSE "mature"

\* One pass of the loop over main_result["rows"]: the name lifecycle_phase,
\* which held the parameter, is assigned the row's phase, and the filters
\* are applied to the names as they are then.
ApplicationOf(row, lifecycle_phase_param, min_share) ==
    LET share_percent == FloatOrZero(row.share_percent)
        growth == FloatOrZero(row.growth)
        lifecycle_phase == ApplicationPhase(growth)
        skipped ==
            \/ (lifecycle_phase # NoPhase /\ lifecycle_phase # lifecycle_phase)
            \/ (min_share # Null /\ min_share.n # 0
                /\ share_percent.n * min_share.d < min_share.n * share_percent.d)
    IN  IF skipped THEN <<>>
        ELSE << [title |-> row.title, share_percent |-> share_percent,
                 growth |-> growth, lifecycle_phase |-> lifecycle_phase] >>

RECURSIVE Applications(_, _, _)
Applications(rows, lifecycle_phase, min_share) ==
    IF rows = <<>> THEN <<>>
    ELSE ApplicationOf(Head(rows), lifecycle_phase, min_share)
         \o Applications(Tail(rows), lifecycle_phase, min_share)

\* GET /applications/detailed
GetDetailedApplications(lifecycle_phase, min_share, main_result) ==
    /\ Idle
    /\ tpl' = [op |-> "applications", lifecycle_phase |-> lifecycle_phase,
               min_share |-> min_share, rows |-> main_result,
               applications |-> Applications(main_result, lifecycle_phase, min_share)]
    /\ UNCHANGED <<dataset, today>>
    /\ UNCHANGED exec_vars

NextApplications ==
    \/ Idle /\ \E lifecycle_phase \in LifecyclePhaseInputs, min_share \in MinShareInputs,
                  main_result \in MainResultInputs :
                  GetDetailedApplications(lifecycle_phase, min_share, main_result)
    \/ Return

SpecApplications == InitMetric /\ [][NextApplications]_vars

\* ------------------------------------------------------- paging through

\* The page sizes of a client that reads all pages.
WalkLimitInputs == {1, 25}

\* A client starts to read the pages of /pairings with fixed parameters.
StartWalk(category, limit, sort_by, sort_direction, lifecycle_phase, search) ==
    /\ Idle
    /\ tpl' = [op |-> "walk", category |-> category, limit |-> limit,
               sort_by |-> sort_by, sort_direction |-> sort_direction,
               lifecycle_phase |-> lifecycle_phase, search |-> search,
               total_pages |-> 1, pages |-> <<>>]
    /\ UNCHANGED <<dataset, today>>
    /\ UNCHANGED exec_vars

\* The client requests the next page, up to total_pages of the last response:
\* GET /pairings with page = the pages read so far + 1.
NextPage ==
    LET page == Len(tpl.pages) + 1
        sort_column == SortColumn(tpl.sort_by)
        sort_dir == IF tpl.sort_direction = "asc" THEN "ASC" ELSE "DESC"
        offset == (page - 1) * tpl.limit
        total_items == CountQuery(Ingredient, CategoryFilter(tpl.category),
                                  PhaseFilter(tpl.lifecycle_phase), tpl.search)
    IN  /\ tpl.op = "walk"
        /\ page <= tpl.total_pages
        /\ \E rows \in MainQuery(Ingredient, CategoryFilter(tpl.category),
                                 PhaseFilter(tpl.lifecycle_phase), tpl.search,
                                 sort_column, sort_dir, tpl.limit, offset) :
              tpl' = [tpl EXCEPT
                        !.pages = Append(@, [i \in DOMAIN rows |->
                                                PairingData(rows[i]).partner_name]),
                        !.total_pages = TotalPages(total_items, tpl.limit)]
        /\ UNCHANGED <<dataset, today>>
        /\ UNCHANGED exec_vars

NextWalk ==
    \/ Idle /\ \E d \in PairDishIds, c \in Categories, paired \in PairedInputs :
                  InsertPairedDish(d, c, paired)
    \/ Idle /\ \E category \in {Absent, <<"Dessert">>}, limit \in WalkLimitInputs,
                  sort \in SortInputs, lifecycle_phase \in PhaseInputs,
                  search \in SearchInputs :
                  StartWalk(category, limit, sort[1], sort[2], lifecycle_phase, search)
    \/ NextPage
    \/ Return

SpecWalk == InitMetric /\ [][NextWalk]_vars

\* ------------------------------------------------------------- claims

KeyOf(call) == GenerateCacheKey(call.query, call.params)

\* The step is call i entering execute_query and reaching the cache lookup
\* (get_db_connection, if it ran, had a handle).
LookupStep(i) ==
    /\ Free(i)
    /\ calls'[i] # calls[i]
    /\ calls'[i].pc # "idle"
    /\ ~(calls'[i].entry = "module" /\ connection = None)

\* The step is call i running its query on the engine (connect, if it ran,
\* succeeded).
EngineStep(i) ==
    /\ calls[i].pc = "execute"
    /\ calls'[i].pc \in {"returned", "raised"}
    /\ calls'[i].execs > 0

\* C1: a cacheable call, with caching enabled, that finds an entry under its
\* key whose age is strictly less than its ttl returns the stored data without
\* running the query on the engine, and the cache keeps the entry.
C1_ValidEntryIsReturned ==
    [][\A i \in CallIds :
        LET call == calls'[i]
            key  == KeyOf(call)
        IN (/\ LookupStep(i)
            /\ enable_caching /\ call.options.cacheable
            /\ key \in DOMAIN cache
            /\ now - cache[key].timestamp < call.options.ttl)
           => (/\ call.pc = "returned"
               /\ call.result = cache[key].data
               /\ call.execs = 0
               /\ cache' = cache
               /\ key \in DOMAIN cache')]_vars

\* C1 witness: a call returned the stored result although the engine would
\* now answer differently.
C1_Witness ==
    /\ calls[1].pc = "returned" /\ calls[1].hit /\ calls[1].execs = 0
    /\ calls[1].result # QueryResult(EngineRows(calls[1].query, calls[1].params, db))
    /\ KeyOf(calls[1]) \in DOMAIN cache
    /\ now > cache[KeyOf(calls[1])].timestamp

\* C2: a cacheable lookup that finds an entry whose age is at least the ttl
\* removes the entry and goes on to the engine instead of returning; a
\* successful run stores the fresh result under the key with the current time.
C2_StaleEntryIsReplaced ==
    [][\A i \in CallIds :
        LET call == calls'[i]
            key  == KeyOf(call)
        IN /\ (/\ LookupStep(i)
               /\ enable_caching /\ call.options.cacheable
               /\ key \in DOMAIN cache
               /\ now - cache[key].timestamp >= call.options.ttl)
              => (/\ call.pc = "execute"
                  /\ call.result = NoResult
                  /\ key \notin DOMAIN cache'
                  /\ \A k \in DOMAIN cache \ {key} :
                        k \in DOMAIN cache' /\ cache'[k] = cache[k])
           /\ (/\ EngineStep(i)
               /\ call.pc = "returned"
               /\ enable_caching /\ call.options.cacheable)
              => (/\ call.result = QueryResult(EngineRows(call.query, call.params, db))
                  /\ key \in DOMAIN cache'
                  /\ cache'[key] = [data |-> call.result, timestamp |-> now])]_vars

\* C2 witness: a call whose lookup removed an expired entry has run its query
\* and the cache holds the fresh result, stamped with the current time.
C2_Witness ==
    /\ calls[1].pc = "returned" /\ calls[1].evicted /\ calls[1].execs = 1
    /\ KeyOf(calls[1]) \in DOMAIN cache
    /\ cache[KeyOf(calls[1])] = [data |-> calls[1].result, timestamp |-> now]
    /\ now > 0

\* C3: a call that is not cacheable, or any call while caching is disabled,
\* leaves the cache as it is in each of its steps, never returns from the
\* lookup, and has run its query on the engine when it returns.
C3_CachingIsOptIn ==
    [][\A i \in CallIds :
        LET call == calls'[i] IN
        (/\ calls'[i] # calls[i]
         /\ call.pc # "idle"
         /\ ~(enable_caching /\ call.options.cacheable))
        => (/\ cache' = cache
            /\ ~call.hit
            /\ call.pc = "returned" => call.execs = 1)]_vars

\* C3 witness: a non-cacheable call ran on the engine and returned a result
\* that differs from the entry the cache holds under the same key.
C3_Witness ==
    /\ calls[1].pc = "returned" /\ ~calls[1].options.cacheable
    /\ calls[1].execs = 1
    /\ KeyOf(calls[1]) \in DOMAIN cache
    /\ cache[KeyOf(calls[1])].data # calls[1].result

\* A call that missed the cache: it waits for its run, or has returned from it.
Missed(call) ==
    \/ call.pc = "execute"
    \/ call.pc = "returned" /\ ~call.hit

\* C4: two cacheable calls for the same key that have both missed the cache
\* are not merged: the step of one leaves the other as it is, and each run
\* that returns has sent the query to the engine itself and written the entry,
\* also when the other call has stored its result meanwhile.
C4_NoSingleFlight ==
    [][\A i, j \in CallIds :
        (/\ i # j
         /\ calls[i].pc = "execute" /\ Missed(calls[j])
         /\ KeyOf(calls[i]) = KeyOf(calls[j])
         /\ enable_caching
         /\ calls[i].options.cacheable /\ calls[j].options.cacheable
         /\ calls'[i] # calls[i])
        => (/\ calls'[j] = calls[j]
            /\ calls'[i].pc = "returned"
               => (/\ calls'[i].execs = 1
                   /\ calls'[i].result =
                        QueryResult(EngineRows(calls[i].query, calls[i].params, db))
                   /\ cache'[KeyOf(calls[i])] =
                        [data |-> calls'[i].result, timestamp |-> now]))]_vars

\* C4 witness: two calls for the same key have both missed, both run the
\* query and both returned.
C4_Witness ==
    /\ calls[1].pc = "returned" /\ calls[2].pc = "returned"
    /\ KeyOf(calls[1]) = KeyOf(calls[2])
    /\ enable_caching
    /\ calls[1].options.cacheable /\ calls[2].options.cacheable
    /\ ~calls[1].hit /\ ~calls[2].hit
    /\ calls[1].execs = 1 /\ calls[2].execs = 1

\* C5: a query that fails on the engine with a connection error clears the
\* shared handle, so that the next call connects again.
C5_ConnectionErrorResetsHandle ==
    [][\A i \in CallIds :
        (EngineStep(i) /\ calls'[i].pc = "raised" /\ calls'[i].error = "conn_error")
        => connection' = None]_vars

\* C6: a call that raises has sent its query to the engine at most once and
\* hands no result to the caller.
C6_NoRetryOnError ==
    \A i \in CallIds :
        /\ calls[i].execs <= 1
        /\ calls[i].pc = "raised"
           => (/\ calls[i].result = NoResult
               /\ ~calls[i].hit
               /\ calls[i].error # "none")

\* C6 witness: a query failed on the engine and the call raised.
C6_Witness ==
    /\ calls[1].pc = "raised" /\ calls[1].error = "query_error"
    /\ calls[1].execs = 1

\* The errors a call can raise: from connect and from the engine.
AllErrors == {"no_token", "connect_fail", "verify_fail", "conn_error", "query_error"}

\* C7: a handler that gathers its sub-queries answers from them only when all
\* of them have returned; once one of them has failed the request ends with
\* the 500 of the except clause and carries no body.
C7_GatherIsABarrier ==
    (req.pc = "done" /\ req.ep \in GatherEndpoints)
    => /\ req.response.status # 500
          => \A k \in 1..Len(req.state) : req.state[k] = "ok" /\ req.rows[k] >= 0
       /\ (\E k \in 1..Len(req.state) : req.state[k] = "error")
          => (req.response.status = 500 /\ req.response.body = "none")
       /\ req.response.status \in {200, 404, 500}

\* C7 witness: one sub-query of /category/trends returned, the other failed,
\* and the request ended with 500.
C7_Witness ==
    /\ req.pc = "done" /\ req.ep = "category_trends"
    /\ req.state = <<"ok", "error">>
    /\ req.response.status = 500

\* C8: a request whose queries all returned zero rows ends with 200.
C8_EmptyResultIsNotAnError ==
    (/\ req.pc = "done"
     /\ Len(req.rows) > 0
     /\ \A k \in 1..Len(req.rows) : req.rows[k] = 0)
    => req.response.status = 200

\* The request carries a source or sort_by value outside the allow-list of its
\* endpoint.
InvalidValue(ep, params) ==
    \/ ep = "phase" /\ params.source \notin {"recipe", "menu"}
    \/ ep = "top_dishes" /\ params.source \notin {"absent", "recipe", "menu", "social"}
    \/ ep = "pairings" /\
         params.sort_by \notin {"share_percent", "growth", "appeal_score",
                                "dominant_ingredient_percent", "title"}

\* C9: a request with a source or sort_by value outside the allow-list is
\* answered with 400 and sends no query.
C9_InvalidValueIsRejected ==
    (req.pc # "idle" /\ InvalidValue(req.ep, req.params))
    => (/\ req.pc = "done"
        /\ req.response.status = 400
        /\ req.state = <<>>)

\* C10: the 500 that answers an error of the engine does not depend on the
\* error and holds no error text.
C10_ServerErrorIsGeneric ==
    (/\ req.pc = "done"
     /\ req.response.status = 500
     /\ req.error \in {"conn_error", "query_error"})
    => /\ \A e \in AllErrors : req.response = ErrorResponse(req.ep, e)
       /\ \A k \in 1..Len(req.response.detail) :
             \A e \in AllErrors : req.response.detail[k] # ErrorText(e)

\* C11: the lifecycle phase follows the ordered rules: no dishes before and
\* some now is Emerging, with a description that names the current count;
\* otherwise no dishes now is Declining; otherwise growth above 20 is
\* Growing; otherwise growth below -20 is Declining; otherwise Mature.
C11_LifecycleRules ==
    tpl.op \in {"classify_lifecycle_phase", "determine_lifecycle_phase"} =>
        LET expected ==
                IF tpl.previous = 0 /\ tpl.current > 0 THEN "Emerging"
                ELSE IF tpl.current = 0 THEN "Declining"
                ELSE IF Gt(tpl.growth, 20) THEN "Growing"
                ELSE IF Lt(tpl.growth, -20) THEN "Declining"
                ELSE "Mature"
        IN  /\ tpl.phase = expected
            /\ (tpl.op = "classify_lifecycle_phase" /\ expected = "Emerging")
                    => tpl.current \in tpl.description.counts

StatusOps ==
    {"category_penetration", "category_analysis",
     "archived_category_penetration", "archived_geographic_penetration"}

\* C12: a penetration status follows the threshold table over the previous
\* and current counts: none before and some now is Hot; with some before,
\* above 1.25 times is Hot, else above 1.10 times is Rising, else at least
\* 0.90 times is Stable, else Declining; the label is in the closed set.
C12_StatusThresholds ==
    tpl.op \in {"category_penetration", "category_analysis"} =>
        \A k \in 1..Len(tpl.rows) :
            LET row == tpl.rows[k]
                p == row.previous
                c == row.current
            IN  /\ row.status \in {"Hot", "Rising", "Stable", "Declining", "New"}
                /\ (p = 0 /\ c > 0) => row.status = "Hot"
                /\ p > 0 => row.status =
                        (IF 100 * c > 125 * p THEN "Hot"
                         ELSE IF 100 * c > 110 * p THEN "Rising"
                         ELSE IF 100 * c >= 90 * p THEN "Stable"
                         ELSE "Declining")

Rank(status) ==
    CASE status = "Declining" -> 1
      [] status = "Stable"    -> 2
      [] status = "Rising"    -> 3
      [] status = "Hot"       -> 4
      [] OTHER                -> 0

\* C13: the status is monotonic: of two rows with the same previous count
\* above zero, the row with the larger current count is never in a lower
\* bucket, in the order Declining < Stable < Rising < Hot.
C13_StatusIsMonotonic ==
    tpl.op \in StatusOps =>
        \A j \in 1..Len(tpl.rows), k \in 1..Len(tpl.rows) :
            (/\ tpl.rows[j].previous > 0
             /\ tpl.rows[j].previous = tpl.rows[k].previous
             /\ tpl.rows[j].current <= tpl.rows[k].current)
                => Rank(tpl.rows[j].status) <= Rank(tpl.rows[k].status)

\* Two countries with the same previous count, one fallen and one grown.
C13_Witness ==
    /\ tpl.op = "archived_geographic_penetration"
    /\ tpl.rows[1].previous > 0
    /\ tpl.rows[1].previous = tpl.rows[2].previous
    /\ tpl.rows[1].current < tpl.rows[2].current
    /\ tpl.rows[1].status = "Stable"
    /\ tpl.rows[2].status = "Rising"

GrowthOps ==
    {"category_penetration", "category_analysis", "geographic_distribution", "pairings",
     "archived_category_penetration", "archived_geographic_penetration"}

\* C14: in every growth computation, a previous value of 0 with a current
\* value above 0 gives exactly the sentinel 100.
C14_GrowthSentinel ==
    tpl.op \in GrowthOps =>
        \A k \in 1..Len(tpl.rows) :
            (tpl.rows[k].previous = 0 /\ tpl.rows[k].current > 0)
                => Eq(tpl.rows[k].growth, 100)

\* C15: a share whose denominator is 0 is null in what the caller receives,
\* never 0.
C15_NullShareStaysNull ==
    tpl.op = "category_distribution" =>
        \A k \in 1..Len(tpl.rows) :
            tpl.rows[k].total = 0 => tpl.rows[k].value = Null

\* The dishes of a category and of some years that have a matching row.
MatchingDishes(category, years) ==
    { r.dish_id : r \in { x \in Matching(Ingredient) :
                            x.general_category = category /\ x.year \in years } }

\* C16: every dish count counts distinct dish identifiers: a dish with two
\* matching ingredient rows adds exactly 1 to dish_count, to count_2023 and
\* to the numerator and the denominator of a penetration.
C16_DishesAreCountedOnce ==
    (\E r1 \in Matching(Ingredient), r2 \in Matching(Ingredient) :
        r1.dish_id = r2.dish_id /\ r1 # r2) =>
    /\ tpl.op = "category_distribution_data" =>
        \A row \in tpl.rows :
            /\ row.dish_count = Cardinality(MatchingDishes(row.name, {2024}))
            /\ row.count_2023 = Cardinality(MatchingDishes(row.name, {2023}))
    /\ tpl.op = "category_analysis_data" =>
        \A row \in tpl.rows :
            row.dish_count = Cardinality(MatchingDishes(row.name, DishYears))
    /\ tpl.op \in {"category_penetration_data", "category_analysis_data"} =>
        \A row \in (IF tpl.op = "category_analysis_data" THEN tpl.penetration ELSE tpl.rows) :
            /\ row.ingredient_count = Cardinality(MatchingDishes(row.name, DishYears))
            /\ row.total_count =
                Cardinality({ r.dish_id : r \in { x \in dataset :
                                                    x.general_category = row.name } })

\* C17: in a trend response every series has one value per entry of years,
\* in the same order, and the value is 0 for each year in which the
\* series' category has no matching row.
C17_SeriesArePadded ==
    (tpl.op \in {"category_trends", "subcategory_trends"} /\ tpl.status_code = 200) =>
        \A s \in tpl.series :
            /\ Len(s.values) = Len(tpl.years)
            /\ \A k \in 1..Len(tpl.years) :
                (~ \E r \in Matching(Ingredient) :
                        r.year = tpl.years[k] /\ r.general_category = s.name)
                    => Eq(s.values[k], 0)

\* A series with a year that has the ingredient and a year that has not.
C17_Witness ==
    /\ tpl.op = "subcategory_trends"
    /\ Len(tpl.years) >= 2
    /\ \E s \in tpl.series :
        /\ Len(s.values) = Len(tpl.years)
        /\ \E j \in 1..Len(tpl.years), k \in 1..Len(tpl.years) :
            /\ Eq(s.values[j], 0)
            /\ ~ Eq(s.values[k], 0)

\* C18: a trend template returns at most 7 years, all of them from 2018 to
\* the present year, and the present year is among them whenever the
\* dataset has data for it.
C18_YearRange ==
    (tpl.op \in {"category_trends", "subcategory_trends", "general_trends"}
        /\ tpl.status_code = 200 /\ tpl.years # <<>>) =>
        /\ Len(tpl.years) <= 7
        /\ \A k \in 1..Len(tpl.years) : tpl.years[k] >= 2018 /\ tpl.years[k] <= today
        /\ (\E r \in dataset : r.year = today)
                => \E k \in 1..Len(tpl.years) : tpl.years[k] = today

\* The dishes that support a pairing under a request's category filter.
SupportingDishes(paired_ingredient, category) ==
    { r.dish_id : r \in { q \in dataset :
        /\ q.paired_ingredient = paired_ingredient
        /\ PairingWhere(q, Ingredient, CategoryFilter(category)) } }

PairedIngredients == { r.paired_ingredient : r \in dataset }

\* C19: a pairing supported by fewer than 3 distinct dishes appears in no
\* response of GET /pairings, whatever the page, limit, sort, category,
\* lifecycle_phase and search, and total_items does not count it.
C19_ThresholdOfThreeDishes ==
    tpl.op = "pairings" =>
        /\ \A i \in DOMAIN tpl.pairings :
              \E p \in PairedIngredients :
                  /\ Title(p) = tpl.pairings[i].partner_name
                  /\ Cardinality(SupportingDishes(p, tpl.category)) >= 3
        /\ tpl.total_items <=
              Cardinality({ p \in PairedIngredients :
                              Cardinality(SupportingDishes(p, tpl.category)) >= 3 })
        /\ tpl.total_pairings = tpl.total_items

C19_Witness ==
    /\ tpl.op = "pairings"
    /\ tpl.total_items = 1
    /\ Len(tpl.pairings) = 1
    /\ \E p \in PairedIngredients :
          /\ Cardinality(SupportingDishes(p, tpl.category)) \in {1, 2}
          /\ Title(p) # tpl.pairings[1].partner_name
          /\ tpl.search = Absent /\ tpl.lifecycle_phase = Absent

\* Where the SQL string literal that opens before position i of the text
\* ends: at the first quote that is not doubled (0 if there is none).
RECURSIVE LiteralEnd(_, _)
LiteralEnd(text, i) ==
    IF i > Len(text) THEN 0
    ELSE IF text[i] # "'" THEN LiteralEnd(text, i + 1)
    ELSE IF i + 1 <= Len(text) /\ text[i + 1] = "'" THEN LiteralEnd(text, i + 2)
    ELSE i

\* C20: every string of a request (ingredient, category, subcategory, cuisine,
\* country, search, lifecycle_phase) has its quotes escaped before it is
\* embedded, so the literal it is placed in ends at its own closing quote and
\* never inside the embedded value.
C20_QuotesAreEscaped ==
    tpl.op = "query" =>
        \A e \in tpl.literals : LiteralEnd(e.literal, 2) = Len(e.literal)

\* The same of GET /phase alone, whose ingredient is escaped.
C20_PhaseQuotesAreEscaped ==
    (tpl.op = "query" /\ tpl.handler = "get_ingredient_phase") =>
        \A e \in tpl.literals : LiteralEnd(e.literal, 2) = Len(e.literal)

\* C21: the connection lifecycle.  After a successful connect() the handle
\* is set; after close() it is None (closing without a handle changes
\* nothing); a call that finds no handle connects first, so whenever a query
\* is sent to the engine the handle is set, in any sequence of connect,
\* execute_query and close calls.
C21_ConnectionLifecycle ==
    [][ /\ (motherduck_token /\ Connect("ok")) => connection' = Handle
        /\ Close => connection' = None
        /\ \A i \in CallIds :
              (calls[i].pc = "execute" /\ calls'[i].execs > calls[i].execs)
                  => connection' = Handle ]_vars

\* C21 witness: a call of the method has sent its query to the engine and
\* returned, and the handle is set.
C21_Witness ==
    /\ calls[1].entry = "method"
    /\ calls[1].pc = "returned"
    /\ calls[1].execs = 1
    /\ connection = Handle

\* C22: each pairing of a /pairings response lists at most 4 dishes in
\* top_dishes, whatever the dish names are, a name with the delimiter ','
\* included.
C22_AtMostFourDishes ==
    tpl.op = "top_dishes" => Len(tpl.top_dishes) <= 4

\* The same for dish names without the delimiter.
C22_AtMostFourPlainDishes ==
    (tpl.op = "top_dishes" /\ \A i \in DOMAIN tpl.ranked : tpl.ranked[i] # <<"a", ",", "b">>)
        => Len(tpl.top_dishes) <= 4

\* A query text reads the attribute table.
ReadsTable(text) ==
    \E i \in DOMAIN text : text[i] = <<"FROM">> \o AttributeTable(tpl.attribute_type)

\* A query text carries the request's year restriction.
CarriesYearFilter(text) == \E i \in DOMAIN text : text[i] = tpl.year_filter[1]

\* C23: when start_year or end_year is given to /consumer-insights, every
\* query sent for the request (distribution, trends, detailed attributes)
\* carries the year restriction in the text it is executed with.
C23_YearFilterBeforeExecution ==
    (tpl.op = "insights" /\ (tpl.start_year # NoYear \/ tpl.end_year # NoYear)) =>
        \A k \in DOMAIN tpl.executed :
            ReadsTable(tpl.executed[k]) => CarriesYearFilter(tpl.executed[k])

\* The same of the detailed attributes query alone, the last one sent.
C23_AttributesCarryYearFilter ==
    (tpl.op = "insights" /\ (tpl.start_year # NoYear \/ tpl.end_year # NoYear)) =>
        CarriesYearFilter(tpl.executed[3])

\* C24: when /applications/detailed is given lifecycle_phase, every
\* application of the response has that phase and the rows of any other phase
\* are left out.
C24_LifecyclePhaseFilter ==
    (tpl.op = "applications" /\ tpl.lifecycle_phase # NoPhase) =>
        \A i \in DOMAIN tpl.applications :
            tpl.applications[i].lifecycle_phase = tpl.lifecycle_phase

\* The min_share filter of the same loop: no application below it is returned.
C24_MinShareFilter ==
    (tpl.op = "applications" /\ tpl.min_share # Null) =>
        \A i \in DOMAIN tpl.applications :
            Le(tpl.min_share, tpl.applications[i].share_percent)

\* Some entry of the cache was written in the step: added, or replaced.
EntryWritten ==
    \E k \in DOMAIN cache' : k \notin DOMAIN cache \/ cache'[k] # cache[k]

\* DatabaseConnection.execute_query raised in the step, for call i.
MethodRaised(i) == calls[i].pc = "execute" /\ calls'[i].pc = "raised"

\* C25: a failed execution leaves no cache entry for its key.  An entry is
\* written only in the step in which a query returned from the engine; the
\* step in which execute_query raises writes nothing, and right after it the
\* cache holds no entry under the key of the (cacheable) call: an expired
\* entry that the lookup removed is not put back.
C25_FailureLeavesNoEntry ==
    [][ /\ EntryWritten =>
              \E i \in CallIds : /\ calls[i].pc = "execute"
                                 /\ calls'[i].pc = "returned"
                                 /\ calls'[i].execs = calls[i].execs + 1
        /\ \A i \in CallIds :
              MethodRaised(i) =>
                  /\ cache' = cache
                  /\ CachingOn(calls[i].options) =>
                        GenerateCacheKey(calls[i].query, calls[i].params)
                            \notin DOMAIN cache' ]_vars

\* C25 witness: a call whose lookup removed an expired entry has failed on the
\* engine and raised, and the cache holds nothing under its key.
C25_Witness ==
    /\ calls[1].pc = "raised"
    /\ calls[1].evicted
    /\ calls[1].execs = 1
    /\ GenerateCacheKey(calls[1].query, calls[1].params) \notin DOMAIN cache

\* connect() raised in the step, inside call i, with one of the given errors:
\* the call found no handle and ended with a connect error.
ConnectRaised(i, errors) ==
    /\ connection = None
    /\ calls'[i] # calls[i]
    /\ calls'[i].pc = "raised"
    /\ calls'[i].error \in errors

\* C26: when connect() raises, at whatever step (no token, the connect itself,
\* the verification query, the version or table lookup), the handle is left
\* None, so that the next call connects again.
C26_FailedConnectLeavesNoHandle ==
    [][ \A i \in CallIds :
            ConnectRaised(i, {"no_token", "connect_fail", "verify_fail"})
                => connection' = None ]_vars

\* The same for the failures before the handle is assigned.
C26_EarlyFailureLeavesNoHandle ==
    [][ \A i \in CallIds :
            ConnectRaised(i, {"no_token", "connect_fail"}) => connection' = None ]_vars

\* Call i was made in the step through the given entry point, cacheable, with
\* caching enabled, and the cache held a valid entry under its key.
CalledWithValidEntry(i, entry) ==
    LET key == GenerateCacheKey(calls'[i].query, calls'[i].params) IN
    /\ Free(i)
    /\ calls'[i] # calls[i]
    /\ calls'[i].entry = entry
    /\ CachingOn(calls'[i].options)
    /\ key \in DOMAIN cache
    /\ IsCacheValid(cache[key], calls'[i].options.ttl)

ServedFromCache(i) ==
    LET key == GenerateCacheKey(calls'[i].query, calls'[i].params) IN
    /\ calls'[i].pc = "returned"
    /\ calls'[i].hit
    /\ calls'[i].result = cache[key].data
    /\ calls'[i].execs = 0
    /\ connection' = connection

\* C27: a cache hit needs no engine at all.  The module-level execute_query,
\* called for a cacheable query whose entry is still valid, returns the stored
\* result without connecting and without sending a query, also when there is
\* no handle and the engine cannot be reached.
C27_HitNeedsNoEngine ==
    [][ \A i \in CallIds : CalledWithValidEntry(i, "module") => ServedFromCache(i) ]_vars

\* The same of the method DatabaseConnection.execute_query.
C27_MethodHitNeedsNoEngine ==
    [][ \A i \in CallIds : CalledWithValidEntry(i, "method") => ServedFromCache(i) ]_vars

\* The least number of pages of the given size that hold the items.
CeilDiv(items, size) == CHOOSE n \in 0..items : n * size >= items /\ (n = 0 \/ (n - 1) * size < items)

\* C28: the pagination fields of every /pairings response are consistent, for
\* any page >= 1 and limit >= 1: total_pages is max(1, ceil(total_items /
\* limit)), has_next holds exactly when the page is before the last one,
\* has_previous exactly when it is after the first, and at most limit
\* pairings are returned.
C28_PaginationIsConsistent ==
    tpl.op = "pairings" =>
        LET pages == CeilDiv(tpl.total_items, tpl.limit) IN
        /\ tpl.total_pages = IF pages < 1 THEN 1 ELSE pages
        /\ tpl.has_next <=> tpl.page < tpl.total_pages
        /\ tpl.has_previous <=> tpl.page > 1
        /\ Len(tpl.pairings) <= tpl.limit

\* The same of the responses that hold at least one pairing.
C28_FilledPageIsConsistent ==
    (tpl.op = "pairings" /\ tpl.pairings # <<>>) =>
        LET pages == CeilDiv(tpl.total_items, tpl.limit) IN
        /\ tpl.total_pages = IF pages < 1 THEN 1 ELSE pages
        /\ tpl.has_next <=> tpl.page < tpl.total_pages
        /\ tpl.has_previous <=> tpl.page > 1
        /\ Len(tpl.pairings) <= tpl.limit

\* The pairings that qualify for the walk's parameters, by partner name.
Qualifying ==
    { Title(gc.paired_ingredient) :
        gc \in { g \in GrowthCalculation(Ingredient, CategoryFilter(tpl.category)) :
                   FinalWhere(g, PhaseFilter(tpl.lifecycle_phase), tpl.search) } }

WalkComplete == tpl.op = "walk" /\ Len(tpl.pages) = tpl.total_pages /\ tpl.pages # <<>>

\* Every qualifying pairing is at exactly one place of the pages read.
ExactlyOnce ==
    \A name \in Qualifying :
        Cardinality({ pl \in { <<k, i>> : k \in DOMAIN tpl.pages, i \in 1..tpl.limit } :
                        /\ pl[2] \in DOMAIN tpl.pages[pl[1]]
                        /\ tpl.pages[pl[1]][pl[2]] = name }) = 1

\* Two pairings of the walk's growth_calculation have the same value in its
\* sort column.
SortKeysTie ==
    \E g, h \in GrowthCalculation(Ingredient, CategoryFilter(tpl.category)) :
        /\ g # h
        /\ SortKey(g, SortColumn(tpl.sort_by)) = SortKey(h, SortColumn(tpl.sort_by))

\* C29: with unchanged data and fixed limit, sort and filters, the pages 1 to
\* total_pages of /pairings hold every qualifying pairing exactly once, none
\* twice and none left out, also when pairings tie on the sort key.
C29_PagesPartitionTheResult ==
    WalkComplete => ExactlyOnce

\* The same when no two pairings tie on the sort key.
C29_PagesPartitionWithoutTies ==
    (WalkComplete /\ ~SortKeysTie) => ExactlyOnce

\* The phase each classifier gives for the counts, fed the growth its own
\* endpoint derives from them.
PhaseOfPhaseRouter(previous, current) ==
    classify_lifecycle_phase(previous, current,
                             PhaseRow(previous, current).yoy_growth_percent)[1]

PhaseOfSummaryStats(previous, current) ==
    determine_lifecycle_phase(current, previous, SummaryGrowth(current, previous))[1]

\* C30: the two lifecycle classifiers agree: for the counts of the previous
\* and the current year, classify_lifecycle_phase of /phase and
\* determine_lifecycle_phase of /general/summary-stats return the same phase.
C30_ClassifiersAgree ==
    /\ tpl.op = "classify_lifecycle_phase" =>
          tpl.phase = PhaseOfSummaryStats(tpl.previous, tpl.current)
    /\ tpl.op = "determine_lifecycle_phase" =>
          tpl.phase = PhaseOfPhaseRouter(tpl.previous, tpl.current)

\* The same when not both counts are 0.
C30_ClassifiersAgreeOnPresentIngredients ==
    (tpl.op \in {"classify_lifecycle_phase", "determine_lifecycle_phase"}
     /\ ~(tpl.previous = 0 /\ tpl.current = 0)) =>
        /\ tpl.op = "classify_lifecycle_phase" =>
              tpl.phase = PhaseOfSummaryStats(tpl.previous, tpl.current)
        /\ tpl.op = "determine_lifecycle_phase" =>
              tpl.phase = PhaseOfPhaseRouter(tpl.previous, tpl.current)

====
